---- MODULE Spec2Model ----
(***************************************************************************)
(* Model of the digital-twin backend (digital-twin/backend): the delivery  *)
(* simulation engine, the city metrics aggregator and the object-impact    *)
(* lookup of routers/simulation.py.                                        *)
(*                                                                         *)
(* Representation:                                                         *)
(*  - a Python str is a sequence of characters; a character is a one-token *)
(*    string ("a", "A", " "); Cyrillic letters are written by their        *)
(*    Unicode names ("cyr_pe" is U+043F, "CYR_PE" is U+041F);              *)
(*  - a float percentage or distance is an exact integer number of         *)
(*    hundredths once it went through round(x, 2); before rounding it is   *)
(*    an exact rational num/den or an integer number of 10^-6 km;          *)
(*  - Python objects that are copied or mutated (Vehicle) live in a heap   *)
(*    addressed by references, so that aliasing is visible.                *)
(***************************************************************************)
EXTENDS Integers, Sequences, FiniteSets, TLC

\* ------------------------------------------------------------------------
\* Bounds of the model
\* ------------------------------------------------------------------------
MaxVehicles == 2
MaxDuration == 3
MaxCityVehicles == 4
MaxCityPoints == 1

\* ------------------------------------------------------------------------
\* Python str: strip() and lower()
\* ------------------------------------------------------------------------
UpperLatin == <<"A","B","C","D","E","F","G","H","I","J","K","L","M",
                "N","O","P","Q","R","S","T","U","V","W","X","Y","Z">>
LowerLatin == <<"a","b","c","d","e","f","g","h","i","j","k","l","m",
                "n","o","p","q","r","s","t","u","v","w","x","y","z">>
UpperCyrillic == <<"CYR_A","CYR_VE","CYR_DE","CYR_ZHE","CYR_ZE","CYR_I",
                   "CYR_SHORT_I","CYR_KA","CYR_EL","CYR_EM","CYR_EN",
                   "CYR_O","CYR_PE","CYR_ER","CYR_ES","CYR_TE","CYR_SHA","CYR_U",
                   "CYR_BE","CYR_GE","CYR_EF","CYR_YERU","CYR_E">>
LowerCyrillic == <<"cyr_a","cyr_ve","cyr_de","cyr_zhe","cyr_ze","cyr_i",
                   "cyr_short_i","cyr_ka","cyr_el","cyr_em","cyr_en",
                   "cyr_o","cyr_pe","cyr_er","cyr_es","cyr_te","cyr_sha","cyr_u",
                   "cyr_be","cyr_ge","cyr_ef","cyr_yeru","cyr_e">>
UpperChars == UpperLatin \o UpperCyrillic
LowerChars == LowerLatin \o LowerCyrillic
Whitespace == {" ", "\t", "\n"}

\* str.lower() on one character
LowerChar(c) ==
    IF \E i \in 1..Len(UpperChars) : UpperChars[i] = c
    THEN LowerChars[CHOOSE i \in 1..Len(UpperChars) : UpperChars[i] = c]
    ELSE c

\* str.upper() on one character (used to build inputs only)
UpperChar(c) ==
    IF \E i \in 1..Len(LowerChars) : LowerChars[i] = c
    THEN UpperChars[CHOOSE i \in 1..Len(LowerChars) : LowerChars[i] = c]
    ELSE c

StrLower(s) == [i \in 1..Len(s) |-> LowerChar(s[i])]
StrUpper(s) == [i \in 1..Len(s) |-> UpperChar(s[i])]

RECURSIVE LStrip(_)
LStrip(s) == IF s /= <<>> /\ Head(s) \in Whitespace THEN LStrip(Tail(s)) ELSE s

RECURSIVE RStrip(_)
RStrip(s) ==
    IF s /= <<>> /\ s[Len(s)] \in Whitespace
    THEN RStrip(SubSeq(s, 1, Len(s) - 1))
    ELSE s

StrStrip(s) == RStrip(LStrip(s))

\* ------------------------------------------------------------------------
\* Vehicle statuses (simulation.py:40-47)
\* ------------------------------------------------------------------------
IDLE == <<"i","d","l","e">>
MOVING == <<"m","o","v","i","n","g">>
LOADING == <<"l","o","a","d","i","n","g">>
UNLOADING == <<"u","n">> \o LOADING
COMPLETED == <<"c","o","m","p","l","e","t","e","d">>
ALLOWED_STATUSES == {IDLE, MOVING, LOADING, UNLOADING, COMPLETED}

normalize_vehicle_status(status) ==
    LET status_normalized == StrLower(StrStrip(status))
    IN IF status_normalized \in ALLOWED_STATUSES THEN status_normalized ELSE IDLE

\* ------------------------------------------------------------------------
\* Arithmetic helpers
\* ------------------------------------------------------------------------
Max(a, b) == IF a >= b THEN a ELSE b
Min(a, b) == IF a <= b THEN a ELSE b

\* round(): the integer nearest to num/den (den > 0), ties to even
RoundDiv(num, den) ==
    LET q == num \div den
        r == num % den
    IN IF 2 * r < den THEN q
       ELSE IF 2 * r > den THEN q + 1
       ELSE IF q % 2 = 0 THEN q ELSE q + 1

RECURSIVE SumSeq(_)
SumSeq(s) == IF s = <<>> THEN 0 ELSE Head(s) + SumSeq(Tail(s))

\* sum(1 for vehicle in vehicles if vehicle.status == status)
count_status(vehicles, status) ==
    Cardinality({i \in 1..Len(vehicles) : vehicles[i].status = status})

\* sum(1 for vehicle in vehicles if normalize_vehicle_status(vehicle.status) == status)
count_normalized_status(vehicles, status) ==
    Cardinality({i \in 1..Len(vehicles) :
                    normalize_vehicle_status(vehicles[i].status) = status})

\* ------------------------------------------------------------------------
\* Location and calculate_distance (simulation.py:290-302)
\* ------------------------------------------------------------------------
\* A Location is [lat, lng] in hundredths of a degree.
LocA == [lat |-> 5110, lng |-> 7140]
LocB == [lat |-> 5111, lng |-> 7140]
LocC == [lat |-> 5111, lng |-> 7142]

\* The haversine formula with radius 6371.0 km evaluated on the model's
\* locations, in units of 10^-6 km (the float result times 10^6, rounded).
calculate_distance(loc1, loc2) ==
    CASE loc1 = loc2 -> 0
      [] {loc1, loc2} = {LocA, LocB} -> 1111949
      [] {loc1, loc2} = {LocA, LocC} -> 1785019
      [] {loc1, loc2} = {LocB, LocC} -> 1396224

\* round(x, 2) of a distance held in 10^-6 km: hundredths of a km
RoundKm2(micro) == RoundDiv(micro, 10000)

\* ------------------------------------------------------------------------
\* analyze_city_state (simulation.py:50-71)
\* ------------------------------------------------------------------------
\* total_capacity without the clamp max(0.0, .)
total_capacity_unclamped(vehicles) ==
    SumSeq([i \in 1..Len(vehicles) |-> vehicles[i].capacity])

total_capacity(vehicles) ==
    SumSeq([i \in 1..Len(vehicles) |-> Max(0, vehicles[i].capacity)])

total_demand(delivery_points) ==
    SumSeq([i \in 1..Len(delivery_points) |-> Max(0, delivery_points[i].demand)])

\* demand_coverage in the direction demand / capacity
demand_coverage_inverted(capacity, demand) ==
    IF capacity > 0
    THEN IF demand < capacity THEN [num |-> demand, den |-> capacity]
                              ELSE [num |-> 1, den |-> 1]
    ELSE [num |-> 1, den |-> 1]

\* demand_coverage as the exact fraction num/den
demand_coverage(capacity, demand) ==
    IF demand > 0
    THEN IF capacity < demand THEN [num |-> capacity, den |-> demand]
                              ELSE [num |-> 1, den |-> 1]
    ELSE [num |-> 1, den |-> 1]

\* The three indices in hundredths of a percent, after round(x, 2).
\*   traffic_load = moving/total * 100
\*   ecology      = max(0, 100 - traffic_load * 0.55)
\*   social_score = min(100, coverage * 70 + idle/total * 30)
analyze_city_state(vehicles, delivery_points) ==
    LET total_vehicles == Len(vehicles)
        moving_count == count_normalized_status(vehicles, MOVING)
        idle_count == count_normalized_status(vehicles, IDLE)
        cov == demand_coverage(total_capacity(vehicles), total_demand(delivery_points))
        n == IF total_vehicles > 0 THEN total_vehicles ELSE 1
        m == IF total_vehicles > 0 THEN moving_count ELSE 0
        idl == IF total_vehicles > 0 THEN idle_count ELSE 0
        \* exact values times 100, as fractions
        traffic_num == 10000 * m
        ecology_num == Max(0, 10000 * n - 5500 * m)
        social_num == 7000 * cov.num * n + 3000 * idl * cov.den
        social_den == cov.den * n
        social_cap == IF social_num > 10000 * social_den
                      THEN [num |-> 10000, den |-> 1]
                      ELSE [num |-> social_num, den |-> social_den]
    IN [ecology |-> RoundDiv(ecology_num, n),
        traffic_load |-> RoundDiv(traffic_num, n),
        social_score |-> RoundDiv(social_cap.num, social_cap.den)]

\* ------------------------------------------------------------------------
\* OBJECT_TYPE_ALIASES, OBJECT_IMPACT, get_object_impact
\* (simulation.py:17-37, 141-172)
\* ------------------------------------------------------------------------
None == <<"None">>

W_park == <<"p","a","r","k">>
W_school == <<"s","c","h","o","o","l">>
W_factory == <<"f","a","c","t","o","r","y">>
W_residential == <<"r","e","s","i","d","e","n","t","i","a","l">>
W_bridge == <<"b","r","i","d","g","e">>
W_ru_park == <<"cyr_pe","cyr_a","cyr_er","cyr_ka">>
W_ru_school == <<"cyr_sha","cyr_ka","cyr_o","cyr_el","cyr_a">>
W_ru_factory == <<"cyr_ze","cyr_a","cyr_ve","cyr_o","cyr_de">>
W_ru_residential == <<"cyr_zhe","cyr_i","cyr_el","cyr_o","cyr_short_i">>
W_ru_residential_area ==
    W_ru_residential \o <<"_","cyr_er","cyr_a","cyr_short_i","cyr_o","cyr_en">>
W_ru_bridge == <<"cyr_em","cyr_o","cyr_es","cyr_te">>

OBJECT_TYPE_ALIASES ==
    (W_park :> W_park) @@ (W_ru_park :> W_park) @@
    (W_school :> W_school) @@ (W_ru_school :> W_school) @@
    (W_factory :> W_factory) @@ (W_ru_factory :> W_factory) @@
    (W_residential :> W_residential) @@ (W_ru_residential :> W_residential) @@
    (W_ru_residential_area :> W_residential) @@
    (W_bridge :> W_bridge) @@ (W_ru_bridge :> W_bridge)

OBJECT_IMPACT ==
    (W_park :> [ecology |-> 12, traffic_load |-> -4, social_score |-> 10]) @@
    (W_school :> [ecology |-> -2, traffic_load |-> 6, social_score |-> 12]) @@
    (W_factory :> [ecology |-> -20, traffic_load |-> 15, social_score |-> 5]) @@
    (W_residential :> [ecology |-> -6, traffic_load |-> 10, social_score |-> 14]) @@
    (W_bridge :> [ecology |-> -3, traffic_load |-> -12, social_score |-> 7])

\* dict.get(key): the value, or None
DictGet(d, key) == IF key \in DOMAIN d THEN d[key] ELSE None

Abs(x) == IF x < 0 THEN -x ELSE x

\* the alias lookup without strip(): only lower-cased
resolve_object_type_unstripped(object_type) ==
    DictGet(OBJECT_TYPE_ALIASES, StrLower(object_type))

\* OBJECT_TYPE_ALIASES.get(object_type.strip().lower())
resolve_object_type(object_type) ==
    DictGet(OBJECT_TYPE_ALIASES, StrLower(StrStrip(object_type)))

\* the message with the delta formatted as it stands, sign included
ecology_message_signed(ecology_delta) ==
    IF ecology_delta < 0
    THEN [direction |-> "fall", amount |-> ecology_delta]
    ELSE IF ecology_delta > 0
    THEN [direction |-> "rise", amount |-> ecology_delta]
    ELSE [direction |-> "none", amount |-> 0]

\* The three forms of ecology_message: the direction and the number that
\* "{...:.0f}" formats into it (the table's deltas are whole numbers).
ecology_message(ecology_delta) ==
    IF ecology_delta < 0
    THEN [direction |-> "fall", amount |-> Abs(ecology_delta)]
    ELSE IF ecology_delta > 0
    THEN [direction |-> "rise", amount |-> ecology_delta]
    ELSE [direction |-> "none", amount |-> 0]

\* The handler's outcome: HTTP status and body.  The message is kept as its
\* direction and the number formatted into it.
get_object_impact(object_type) ==
    LET normalized_type == resolve_object_type(object_type)
    IN IF normalized_type = None \/ normalized_type = <<>>
       THEN [status_code |-> 400, object_type |-> None,
             message |-> [direction |-> "error", amount |-> 0],
             impact |-> [ecology |-> 0, traffic_load |-> 0, social_score |-> 0]]
       ELSE LET impact == OBJECT_IMPACT[normalized_type]
                ecology_delta == impact.ecology
            IN [status_code |-> 200, object_type |-> normalized_type,
                message |-> ecology_message(ecology_delta),
                impact |-> [ecology |-> impact.ecology,
                            traffic_load |-> impact.traffic_load,
                            social_score |-> impact.social_score]]

\* ------------------------------------------------------------------------
\* _route_index_for_hour (simulation.py:175-181)
\* ------------------------------------------------------------------------
\* int(progress) * (route_length - 1): the progress is truncated first
_route_index_for_hour_truncated(route_length, hour, duration_hours) ==
    IF route_length <= 1 THEN 0
    ELSE IF duration_hours <= 1 THEN route_length - 1
    ELSE Min(route_length - 1,
             Max(0, (hour \div (duration_hours - 1)) * (route_length - 1)))

\* a run of one hour stays at the first waypoint
_route_index_for_hour_first(route_length, hour, duration_hours) ==
    IF route_length <= 1 THEN 0
    ELSE IF duration_hours <= 1 THEN 0
    ELSE Min(route_length - 1,
             Max(0, (hour * (route_length - 1)) \div (duration_hours - 1)))

\* progress = hour / duration_hours
_route_index_for_hour_late(route_length, hour, duration_hours) ==
    IF route_length <= 1 THEN 0
    ELSE IF duration_hours <= 1 THEN route_length - 1
    ELSE Min(route_length - 1,
             Max(0, (hour * (route_length - 1)) \div duration_hours))

\* int(hour / (duration_hours - 1) * (route_length - 1)) is computed in
\* floats by the code; for route_length <= 7 and duration_hours <= 8 the
\* float result equals the exact floor used here.
_route_index_for_hour(route_length, hour, duration_hours) ==
    IF route_length <= 1 THEN 0
    ELSE IF duration_hours <= 1 THEN route_length - 1
    ELSE Min(route_length - 1,
             Max(0, (hour * (route_length - 1)) \div (duration_hours - 1)))

\* ------------------------------------------------------------------------
\* State
\* ------------------------------------------------------------------------
VARIABLES
    request,              \* the SimulationRequest as received (values)
    heap,                 \* the Vehicle objects, by reference
    run,                  \* the locals of each run_simulation call
    simulations_storage,  \* simulation.py:15
    uuid_count,           \* number of uuid4() values drawn so far
    city_call,            \* a call of analyze_city_state: input and result
    impact_call,          \* a call of get_object_impact: input and result
    store_call,           \* the last read or delete on simulations_storage
    storage,              \* objects.py: the collections of the objects store
    predictor,            \* the TrafficPredictor object and its last call
    index_call,           \* calls of _route_index_for_hour over one run
    object_call,          \* objects.py: the last call on the objects store
    routing_call,         \* a call of fetch_route_alternatives: input and result
    optimize_call,        \* a call of optimize_route: input and response
    ai_call               \* a call of call_xai: input and response

vars == <<request, heap, run, simulations_storage, uuid_count, city_call, impact_call,
          store_call, storage, predictor, index_call, object_call, routing_call,
          optimize_call, ai_call>>

Runs == {"r1", "r2"}

\* A Vehicle object is [id, capacity, current_location, status, route]
\* (models.py:38-44; the display name plays no part and is left out).
\* A reference is <<owner, hour, kind, index>>.
RequestRef(i) == <<"request", 0, "input", i>>

Deref(h, refs) == [i \in 1..Len(refs) |-> h[refs[i]]]

\* vehicle.copy(deep=True) replaced by the object itself
copy_alias(h, src, dst) == [heap |-> h, ref |-> src]

\* vehicle.copy(deep=True): a new object dst with the fields of src
copy_deep(h, src, dst) == [heap |-> (dst :> h[src]) @@ h, ref |-> dst]

\* [vehicle.copy(deep=True) for vehicle in refs]
RECURSIVE copy_all(_, _, _, _, _, _)
copy_all(h, refs, owner, hour, kind, done) ==
    IF Len(done) = Len(refs)
    THEN [heap |-> h, refs |-> done]
    ELSE LET i == Len(done) + 1
             c == copy_deep(h, refs[i], <<owner, hour, kind, i>>)
         IN copy_all(c.heap, refs, owner, hour, kind, Append(done, c.ref))

EmptyDict == [k \in {} |-> 0]

DictSet(d, key, value) == (key :> value) @@ d

\* {vehicle.id: vehicle.current_location for vehicle in vehicles}: a later
\* vehicle with the same id replaces the entry of an earlier one
RECURSIVE initial_last_locations(_, _)
initial_last_locations(vehicles, d) ==
    IF vehicles = <<>> THEN d
    ELSE initial_last_locations(Tail(vehicles),
             DictSet(d, Head(vehicles).id, Head(vehicles).current_location))

\* last_locations.get(next_vehicle.id, next_vehicle.current_location)
previous_location_of(last_locations, vehicle) ==
    IF vehicle.id \in DOMAIN last_locations
    THEN last_locations[vehicle.id]
    ELSE vehicle.current_location

\* "moving" if route_index > 0 else "completed"
route_status_inverted(route_index, route_length) ==
    IF route_index > 0 THEN MOVING ELSE COMPLETED

\* "moving" if route_index < len(route) - 1 else "completed"
route_status(route_index, route_length) ==
    IF route_index < route_length - 1 THEN MOVING ELSE COMPLETED

\* the status of an empty-route vehicle without the demotion of "moving"
empty_route_status_kept(status) == normalize_vehicle_status(status)

\* the status given to a vehicle with an empty route
empty_route_status(status) ==
    LET normalized_status == normalize_vehicle_status(status)
    IN IF normalized_status = MOVING THEN IDLE ELSE normalized_status

\* the status is assigned only when the waypoint differs from the previous
\* location
status_after_tick_on_advance(status, previous_location, new_location, route_index, route_length) ==
    IF previous_location /= new_location
    THEN route_status(route_index, route_length)
    ELSE status

\* next_vehicle.status = "moving" if route_index < len(route) - 1 else
\* "completed", whatever the status and the locations are
status_after_tick(status, previous_location, new_location, route_index, route_length) ==
    route_status(route_index, route_length)

\* the first waypoint whatever the index
selected_waypoint_first(route, route_index) == route[1]

\* new_location = route[route_index]; sequences are 1-based
selected_waypoint(route, route_index) == route[route_index + 1]

\* "=" for "+=": the total is the last leg
add_distance_overwrite(total_distance, previous_location, new_location) ==
    calculate_distance(previous_location, new_location)

\* total_distance += calculate_distance(previous_location, new_location)
add_distance(total_distance, previous_location, new_location) ==
    total_distance + calculate_distance(previous_location, new_location)

\* The body of "for vehicle in simulated_vehicles" for the vehicles not yet
\* in acc.step_vehicles; acc is [heap, last_locations, total_distance,
\* step_vehicles].
RECURSIVE tick_vehicles(_, _, _, _, _)
tick_vehicles(r, hour, duration_hours, simulated_vehicles, acc) ==
    IF Len(acc.step_vehicles) = Len(simulated_vehicles)
    THEN acc
    ELSE
      LET i == Len(acc.step_vehicles) + 1
          c == copy_deep(acc.heap, simulated_vehicles[i], <<r, hour, "next", i>>)
          next_vehicle == c.ref
          obj == c.heap[next_vehicle]
          route == obj.route
      IN IF route /= <<>>
         THEN
           LET route_index == _route_index_for_hour(Len(route), hour, duration_hours)
               new_location == selected_waypoint(route, route_index)
               previous_location == previous_location_of(acc.last_locations, obj)
           IN tick_vehicles(r, hour, duration_hours, simulated_vehicles,
                [heap |-> [c.heap EXCEPT ![next_vehicle] =
                              [obj EXCEPT !.current_location = new_location,
                                          !.status = status_after_tick(obj.status,
                                                         previous_location, new_location,
                                                         route_index, Len(route))]],
                 last_locations |-> DictSet(acc.last_locations, obj.id, new_location),
                 total_distance |-> add_distance(acc.total_distance, previous_location,
                                                 new_location),
                 step_vehicles |-> Append(acc.step_vehicles, next_vehicle)])
         ELSE
           tick_vehicles(r, hour, duration_hours, simulated_vehicles,
                [heap |-> [c.heap EXCEPT ![next_vehicle] =
                              [obj EXCEPT !.status = empty_route_status(obj.status)]],
                 last_locations |-> acc.last_locations,
                 total_distance |-> acc.total_distance,
                 step_vehicles |-> Append(acc.step_vehicles, next_vehicle)])

\* the counts of completed and of idle vehicles under each other's key
step_metrics_swapped(hour, total_distance, vehicles, delivery_points) ==
    LET city_state == analyze_city_state(vehicles, delivery_points)
    IN [hour |-> hour,
        total_distance |-> RoundKm2(total_distance),
        vehicles_moving |-> count_status(vehicles, MOVING),
        vehicles_completed |-> count_status(vehicles, IDLE),
        vehicles_idle |-> count_status(vehicles, COMPLETED),
        ecology |-> city_state.ecology,
        traffic_load |-> city_state.traffic_load,
        social_score |-> city_state.social_score]

\* the metrics mapping of one step
step_metrics(hour, total_distance, vehicles, delivery_points) ==
    LET city_state == analyze_city_state(vehicles, delivery_points)
    IN [hour |-> hour,
        total_distance |-> RoundKm2(total_distance),
        vehicles_moving |-> count_status(vehicles, MOVING),
        vehicles_completed |-> count_status(vehicles, COMPLETED),
        vehicles_idle |-> count_status(vehicles, IDLE),
        ecology |-> city_state.ecology,
        traffic_load |-> city_state.traffic_load,
        social_score |-> city_state.social_score]

\* efficiency in the direction demand / capacity
efficiency_demand_over_capacity(vehicles, delivery_points) ==
    LET capacity == SumSeq([i \in 1..Len(vehicles) |-> Max(0, vehicles[i].capacity)])
        demand == SumSeq([i \in 1..Len(delivery_points) |->
                              Max(0, delivery_points[i].demand)])
    IN IF capacity > 0
       THEN IF demand < capacity THEN RoundDiv(10000 * demand, capacity) ELSE 10000
       ELSE IF demand > 0 THEN 10000 ELSE 0

\* efficiency in hundredths of a percent, after round(efficiency, 2)
efficiency_of(vehicles, delivery_points) ==
    LET capacity == SumSeq([i \in 1..Len(vehicles) |-> Max(0, vehicles[i].capacity)])
        demand == SumSeq([i \in 1..Len(delivery_points) |->
                              Max(0, delivery_points[i].demand)])
    IN IF demand > 0
       THEN IF capacity < demand THEN RoundDiv(10000 * capacity, demand) ELSE 10000
       ELSE IF capacity > 0 THEN 10000 ELSE 0

NoResponse == [simulation_id |-> 0, steps |-> <<>>, total_distance |-> 0,
               total_time |-> 0, efficiency |-> 0]

NoRun == [pc |-> "ready", hour |-> 0, simulation_id |-> 0, steps |-> <<>>,
          total_distance |-> 0, simulated_vehicles |-> <<>>,
          last_locations |-> EmptyDict, status_code |-> 0, response |-> NoResponse]

NoMetrics == [ecology |-> 0, traffic_load |-> 0, social_score |-> 0]
NoCityCall == [pc |-> "none", vehicles |-> <<>>, delivery_points |-> <<>>,
               result |-> NoMetrics]
NoImpactCall == [pc |-> "none", object_type |-> <<>>, result |-> get_object_impact(<<>>)]
NoRequest == [vehicles |-> <<>>, delivery_points |-> <<>>, start_time |-> 0,
              duration_hours |-> 0]
NoStoreCall == [op |-> "none", simulation_id |-> 0, status_code |-> 0, body |-> {}]
NoStorage == [vehicles |-> <<>>, delivery_points |-> <<>>, warehouses |-> <<>>]
NoPrediction == [predicted_level |-> "none", confidence |-> 0,
                 estimated_delay_minutes |-> 0]
NoPredictor == [pc |-> "none", model |-> "None", scaler |-> "None",
                using_fallback |-> TRUE, route_features |-> [distance_km |-> 0],
                ml |-> [raises |-> "no", value |-> 0],
                path |-> "none", result |-> NoPrediction]
NoIndexCall == [pc |-> "none", route_length |-> 0, duration_hours |-> 0, hour |-> 0,
                indices |-> <<>>]
\* matched: how many entries of the collection had the id when the call began
NoObjectCall == [op |-> "none", id |-> "", status_code |-> 0, body |-> <<>>,
                 matched |-> 0]
NoRoutingCall == [pc |-> "none"]
NoOptimizeCall == [pc |-> "none"]
NoAiCall == [pc |-> "none"]

\* ------------------------------------------------------------------------
\* run_simulation (simulation.py:184-264)
\* ------------------------------------------------------------------------
\* the guard with "<" for "<="
invalid_duration_strict(req) == req.duration_hours < 0

\* if request.duration_hours <= 0: raise HTTPException(status_code=400)
invalid_duration(req) == req.duration_hours <= 0

\* range(request.duration_hours - 1)
loop_done_early(hour, duration_hours) == hour >= duration_hours - 1

\* "for hour in range(request.duration_hours)" is exhausted
loop_done(hour, duration_hours) == hour >= duration_hours

\* duration_hours <= 0: HTTP 400, nothing else happens
RunReject(r) ==
    /\ run[r].pc = "ready"
    /\ invalid_duration(request)
    /\ run' = [run EXCEPT ![r].pc = "failed", ![r].status_code = 400]
    /\ UNCHANGED <<request, heap, simulations_storage, uuid_count, city_call, impact_call, store_call,
                 storage, predictor, index_call, object_call,
                 routing_call, optimize_call, ai_call>>

\* lines 190-198: the identifier and the copies made on entry; the result is
\* the heap and the locals of the call
start_run(h, req, r, simulation_id) ==
    LET refs == [i \in 1..Len(req.vehicles) |-> RequestRef(i)]
        c == copy_all(h, refs, r, 0, "entry", <<>>)
    IN [heap |-> c.heap,
        run |-> [pc |-> "loop", hour |-> 0, simulation_id |-> simulation_id,
                 steps |-> <<>>, total_distance |-> 0,
                 simulated_vehicles |-> c.refs,
                 last_locations |-> initial_last_locations(Deref(c.heap, c.refs), EmptyDict),
                 status_code |-> 0, response |-> NoResponse]]

\* timestamp=current_time: every step carries the start time
step_timestamp_fixed(req, rr) == req.start_time

\* the time of the call for request.start_time: two calls differ in it as
\* they differ in their identifier
step_timestamp_now(req, rr) == req.start_time + rr.simulation_id + rr.hour

\* current_time = request.start_time; timestamp=current_time + timedelta(hours=hour)
step_timestamp(req, rr) == req.start_time + rr.hour

\* lines 200-246: one iteration of the loop over the hours
tick_run(h, rr, req, r) ==
    LET hour == rr.hour
        acc == tick_vehicles(r, hour, req.duration_hours, rr.simulated_vehicles,
                   [heap |-> h, last_locations |-> rr.last_locations,
                    total_distance |-> rr.total_distance, step_vehicles |-> <<>>])
        step == [timestamp |-> step_timestamp(req, rr),
                 vehicles |-> acc.step_vehicles,
                 metrics |-> step_metrics(hour, acc.total_distance,
                                 Deref(acc.heap, acc.step_vehicles), req.delivery_points)]
        c == copy_all(acc.heap, acc.step_vehicles, r, hour, "sim", <<>>)
    IN [heap |-> c.heap,
        run |-> [rr EXCEPT !.hour = hour + 1,
                           !.steps = Append(@, step),
                           !.total_distance = acc.total_distance,
                           !.last_locations = acc.last_locations,
                           !.simulated_vehicles = c.refs]]

\* lines 248-261: efficiency and the response
build_response(h, rr, req) ==
    [simulation_id |-> rr.simulation_id,
     steps |-> rr.steps,
     total_distance |-> RoundKm2(rr.total_distance),
     total_time |-> req.duration_hours,
     efficiency |-> efficiency_of(
                        Deref(h, [i \in 1..Len(req.vehicles) |-> RequestRef(i)]),
                        req.delivery_points)]

\* the identifier is one more than the number of stored results
new_simulation_id_by_size(count, store) == Cardinality(DOMAIN store) + 1

\* simulation_id = str(uuid.uuid4()): the count-th draw of uuid4 gives a value
\* no earlier draw gave
new_simulation_id(count, store) == count + 1

\* the loop publishes what it has so far under the identifier
store_in_loop_partial(store, rr, req) ==
    DictSet(store, rr.simulation_id,
            [simulation_id |-> rr.simulation_id, steps |-> rr.steps,
             total_distance |-> RoundKm2(rr.total_distance),
             total_time |-> req.duration_hours, efficiency |-> 0])

\* lines 200-246 hold no statement on simulations_storage
store_in_loop(store, rr, req) == store

RunStart(r) ==
    /\ run[r].pc = "ready"
    /\ ~invalid_duration(request)
    /\ LET s == start_run(heap, request, r,
                          new_simulation_id(uuid_count, simulations_storage))
       IN /\ heap' = s.heap
          /\ run' = [run EXCEPT ![r] = s.run]
    /\ uuid_count' = uuid_count + 1
    /\ UNCHANGED <<request, simulations_storage, city_call, impact_call, store_call,
                 storage, predictor, index_call, object_call,
                 routing_call, optimize_call, ai_call>>

RunTick(r) ==
    /\ run[r].pc = "loop"
    /\ ~loop_done(run[r].hour, request.duration_hours)
    /\ LET s == tick_run(heap, run[r], request, r)
       IN /\ heap' = s.heap
          /\ run' = [run EXCEPT ![r] = s.run]
          /\ simulations_storage' = store_in_loop(simulations_storage, s.run, request)
    /\ UNCHANGED <<request, uuid_count, city_call, impact_call, store_call,
                 storage, predictor, index_call, object_call,
                 routing_call, optimize_call, ai_call>>

\* lines 248-264: the response is built, stored under its identifier, returned
RunFinish(r) ==
    /\ run[r].pc = "loop"
    /\ loop_done(run[r].hour, request.duration_hours)
    /\ LET response == build_response(heap, run[r], request)
       IN /\ simulations_storage' = DictSet(simulations_storage, run[r].simulation_id, response)
          /\ run' = [run EXCEPT ![r].pc = "done", ![r].status_code = 200,
                                ![r].response = response]
    /\ UNCHANGED <<request, heap, uuid_count, city_call, impact_call, store_call,
                 storage, predictor, index_call, object_call,
                 routing_call, optimize_call, ai_call>>

\* ------------------------------------------------------------------------
\* Inputs
\* ------------------------------------------------------------------------
SeqsUpTo(S, n) == UNION {[1..k -> S] : k \in 0..n}

S_MovingRaw == <<" ","M","o","v","i","n","g","\n">>
S_Broken == <<"b","r","o","k","e","n">>

VehicleIds == {"v1", "v2"}

\* vehicles with a route; the status they arrive with is overwritten
RoutedVehicles ==
    {[id |-> i, capacity |-> 10, current_location |-> l, status |-> p[1], route |-> p[2]] :
        i \in VehicleIds, l \in {LocA, LocB},
        p \in {<<IDLE, <<LocB>>>>, <<COMPLETED, <<LocA, LocB, LocC>>>>}}

\* vehicles without a route, in every kind of status
UnroutedVehicles ==
    [id : {"v1"}, capacity : {-5}, current_location : {LocA},
     status : {S_MovingRaw, S_Broken, COMPLETED}, route : {<<>>}]

VehicleInputs == RoutedVehicles \cup UnroutedVehicles

PointInputs ==
    {<<>>,
     <<[id |-> "p1", demand |-> 30]>>,
     <<[id |-> "p1", demand |-> -5], [id |-> "p2", demand |-> 10]>>}

StartTimes == {100}

Requests ==
    [vehicles : SeqsUpTo(VehicleInputs, MaxVehicles), delivery_points : PointInputs,
     start_time : StartTimes, duration_hours : -1..MaxDuration]

InitialHeap(req) ==
    [ref \in {RequestRef(i) : i \in 1..Len(req.vehicles)} |-> req.vehicles[ref[4]]]

\* ------------------------------------------------------------------------
\* Specification: one call of run_simulation on any request
\* ------------------------------------------------------------------------
Init ==
    /\ request \in Requests
    /\ heap = InitialHeap(request)
    /\ run = [r \in Runs |-> NoRun]
    /\ simulations_storage = EmptyDict
    /\ uuid_count = 0
    /\ store_call = NoStoreCall
    /\ storage = NoStorage
    /\ predictor = NoPredictor
    /\ index_call = NoIndexCall
    /\ object_call = NoObjectCall
    /\ routing_call = NoRoutingCall
    /\ optimize_call = NoOptimizeCall
    /\ ai_call = NoAiCall
    /\ city_call = NoCityCall
    /\ impact_call = NoImpactCall

Next ==
    \/ RunReject("r1")
    \/ RunStart("r1")
    \/ RunTick("r1")
    \/ RunFinish("r1")

Spec == Init /\ [][Next]_vars

\* ------------------------------------------------------------------------
\* Specification: two calls of run_simulation over the same vehicle objects.
\* The handler has no await, so the event loop runs a call to its end before
\* the next one starts; here the calls may also interleave between two
\* iterations of the loop over the hours, which covers the code's schedules
\* and those of a deployment that runs the calls in parallel.
\* ------------------------------------------------------------------------
ConcVehicleInputs ==
    {v \in RoutedVehicles : v.current_location = LocA}
        \cup {v \in UnroutedVehicles : v.status \in {S_MovingRaw, COMPLETED}}

ConcRequests ==
    [vehicles : SeqsUpTo(ConcVehicleInputs, MaxVehicles),
     delivery_points : {<<[id |-> "p1", demand |-> 30]>>},
     start_time : StartTimes, duration_hours : 0..MaxDuration]

InitConc ==
    /\ request \in ConcRequests
    /\ heap = InitialHeap(request)
    /\ run = [r \in Runs |-> NoRun]
    /\ simulations_storage = EmptyDict
    /\ uuid_count = 0
    /\ store_call = NoStoreCall
    /\ storage = NoStorage
    /\ predictor = NoPredictor
    /\ index_call = NoIndexCall
    /\ object_call = NoObjectCall
    /\ routing_call = NoRoutingCall
    /\ optimize_call = NoOptimizeCall
    /\ ai_call = NoAiCall
    /\ city_call = NoCityCall
    /\ impact_call = NoImpactCall

NextConc ==
    \E r \in Runs :
        \/ RunReject(r)
        \/ RunStart(r)
        \/ RunTick(r)
        \/ RunFinish(r)

SpecConc == InitConc /\ [][NextConc]_vars

\* ------------------------------------------------------------------------
\* Specification: one call of analyze_city_state on any fleet and demand
\* ------------------------------------------------------------------------
CityVehicle(status, capacity) ==
    [id |-> "v1", capacity |-> capacity, current_location |-> LocA,
     status |-> status, route |-> <<>>]

CityVehicleInputs ==
    {CityVehicle(st, 10) : st \in {MOVING, IDLE, S_MovingRaw, S_Broken, COMPLETED}}
        \cup {CityVehicle(IDLE, c) : c \in {-5, 0}}

CityPointInputs == {[id |-> "p1", demand |-> d] : d \in {-5, 20}}

AnalyzeCityState ==
    /\ city_call.pc = "ready"
    /\ city_call' = [city_call EXCEPT
           !.pc = "done",
           !.result = analyze_city_state(city_call.vehicles, city_call.delivery_points)]
    /\ UNCHANGED <<request, heap, run, simulations_storage, uuid_count, impact_call, store_call,
                 storage, predictor, index_call, object_call,
                 routing_call, optimize_call, ai_call>>

InitCity ==
    /\ request = NoRequest
    /\ heap = EmptyDict
    /\ run = [r \in Runs |-> NoRun]
    /\ simulations_storage = EmptyDict
    /\ uuid_count = 0
    /\ store_call = NoStoreCall
    /\ storage = NoStorage
    /\ predictor = NoPredictor
    /\ index_call = NoIndexCall
    /\ object_call = NoObjectCall
    /\ routing_call = NoRoutingCall
    /\ optimize_call = NoOptimizeCall
    /\ ai_call = NoAiCall
    /\ city_call \in [pc : {"ready"},
                      vehicles : SeqsUpTo(CityVehicleInputs, MaxCityVehicles),
                      delivery_points : SeqsUpTo(CityPointInputs, MaxCityPoints),
                      result : {NoMetrics}]
    /\ impact_call = NoImpactCall

NextCity == AnalyzeCityState

SpecCity == InitCity /\ [][NextCity]_vars

\* ------------------------------------------------------------------------
\* Specification: one call of get_object_impact on any object_type
\* ------------------------------------------------------------------------
W_spaceport == <<"s","p","a","c","e","p","o","r","t">>

\* strings that are no alias: an unknown word, the empty string, a plural,
\* a canonical name inside a sentence, "zhiloy rayon" with a space
NonAliasWords ==
    {W_spaceport, <<>>, W_park \o <<"s">>, W_park \o <<" ">> \o W_bridge,
     W_ru_residential \o <<" ","cyr_er","cyr_a","cyr_short_i","cyr_o","cyr_en">>}

ImpactWords == DOMAIN OBJECT_TYPE_ALIASES \cup NonAliasWords

Capitalize(w) == IF w = <<>> THEN w ELSE <<UpperChar(Head(w))>> \o Tail(w)
CaseVariants(w) == {w, StrUpper(w), Capitalize(w)}
PadVariants(w) == {w, <<" ">> \o w, w \o <<"\n">>, <<"\t">> \o w \o <<" ", " ">>}

ImpactInputs == UNION {UNION {PadVariants(c) : c \in CaseVariants(w)} : w \in ImpactWords}

GetObjectImpact ==
    /\ impact_call.pc = "ready"
    /\ impact_call' = [impact_call EXCEPT
           !.pc = "done",
           !.result = get_object_impact(impact_call.object_type)]
    /\ UNCHANGED <<request, heap, run, simulations_storage, uuid_count, city_call, store_call,
                 storage, predictor, index_call, object_call,
                 routing_call, optimize_call, ai_call>>

InitImpact ==
    /\ request = NoRequest
    /\ heap = EmptyDict
    /\ run = [r \in Runs |-> NoRun]
    /\ simulations_storage = EmptyDict
    /\ uuid_count = 0
    /\ store_call = NoStoreCall
    /\ storage = NoStorage
    /\ predictor = NoPredictor
    /\ index_call = NoIndexCall
    /\ object_call = NoObjectCall
    /\ routing_call = NoRoutingCall
    /\ optimize_call = NoOptimizeCall
    /\ ai_call = NoAiCall
    /\ city_call = NoCityCall
    /\ impact_call \in [pc : {"ready"}, object_type : ImpactInputs,
                        result : {get_object_impact(<<>>)}]

NextImpact == GetObjectImpact

SpecImpact == InitImpact /\ [][NextImpact]_vars

\* ------------------------------------------------------------------------
\* Specification: calls of run_simulation with reads and deletes of the
\* results store between their steps (simulation.py:267-287)
\* ------------------------------------------------------------------------
DictDel(d, key) == [k \in DOMAIN d \ {key} |-> d[k]]

\* what response_model=SimulationResponse sends: the response by value
response_body(h, response) ==
    [simulation_id |-> response.simulation_id,
     steps |-> [k \in 1..Len(response.steps) |->
                   [timestamp |-> response.steps[k].timestamp,
                    vehicles |-> Deref(h, response.steps[k].vehicles),
                    metrics |-> response.steps[k].metrics]],
     total_distance |-> response.total_distance,
     total_time |-> response.total_time,
     efficiency |-> response.efficiency]

\* an absent identifier answered with an empty body and 200
get_simulation_results_lenient(h, store, simulation_id) ==
    IF simulation_id \notin DOMAIN store
    THEN [status_code |-> 200, body |-> {}]
    ELSE [status_code |-> 200, body |-> {response_body(h, store[simulation_id])}]

\* get_simulation_results: 404 for an absent identifier, else the entry
get_simulation_results(h, store, simulation_id) ==
    IF simulation_id \notin DOMAIN store
    THEN [status_code |-> 404, body |-> {}]
    ELSE [status_code |-> 200, body |-> {response_body(h, store[simulation_id])}]

\* get_all_simulations: list(simulations_storage.values()); the bodies are
\* kept as a set, the entries differ in their simulation_id
get_all_simulations(h, store) ==
    [status_code |-> 200, body |-> {response_body(h, store[k]) : k \in DOMAIN store}]

\* delete_simulation: 404 for an absent identifier, else the entry is removed
delete_simulation(store, simulation_id) ==
    IF simulation_id \notin DOMAIN store
    THEN [status_code |-> 404, store |-> store]
    ELSE [status_code |-> 200, store |-> DictDel(store, simulation_id)]

GetSimulationResults(simulation_id) ==
    /\ LET res == get_simulation_results(heap, simulations_storage, simulation_id)
       IN store_call' = [op |-> "get", simulation_id |-> simulation_id,
                         status_code |-> res.status_code, body |-> res.body]
    /\ UNCHANGED <<request, heap, run, simulations_storage, uuid_count, city_call,
                   impact_call, storage, predictor, index_call, object_call,
                   routing_call, optimize_call, ai_call>>

GetAllSimulations ==
    /\ LET res == get_all_simulations(heap, simulations_storage)
       IN store_call' = [op |-> "get_all", simulation_id |-> 0,
                         status_code |-> res.status_code, body |-> res.body]
    /\ UNCHANGED <<request, heap, run, simulations_storage, uuid_count, city_call,
                   impact_call, storage, predictor, index_call, object_call,
                   routing_call, optimize_call, ai_call>>

DeleteSimulation(simulation_id) ==
    /\ LET res == delete_simulation(simulations_storage, simulation_id)
       IN /\ simulations_storage' = res.store
          /\ store_call' = [op |-> "delete", simulation_id |-> simulation_id,
                            status_code |-> res.status_code, body |-> {}]
    /\ UNCHANGED <<request, heap, run, uuid_count, city_call, impact_call,
                   storage, predictor, index_call, object_call,
                   routing_call, optimize_call, ai_call>>

\* the identifiers asked for: those of the two calls and one never issued
LookupIds == 1..3

StoreVehicleLists ==
    {<<>>,
     <<[id |-> "v1", capacity |-> 10, current_location |-> LocA, status |-> IDLE,
        route |-> <<LocA, LocB, LocC>>]>>}

StoreRequests ==
    [vehicles : StoreVehicleLists,
     delivery_points : {<<[id |-> "p1", demand |-> 30]>>},
     start_time : StartTimes, duration_hours : 0..MaxDuration]

InitStore ==
    /\ request \in StoreRequests
    /\ heap = InitialHeap(request)
    /\ run = [r \in Runs |-> NoRun]
    /\ simulations_storage = EmptyDict
    /\ uuid_count = 0
    /\ store_call = NoStoreCall
    /\ storage = NoStorage
    /\ predictor = NoPredictor
    /\ index_call = NoIndexCall
    /\ object_call = NoObjectCall
    /\ routing_call = NoRoutingCall
    /\ optimize_call = NoOptimizeCall
    /\ ai_call = NoAiCall
    /\ city_call = NoCityCall
    /\ impact_call = NoImpactCall

NextStore ==
    \/ \E r \in Runs :
          \/ RunReject(r)
          \/ RunStart(r)
          \/ RunTick(r)
          \/ RunFinish(r)
    \/ \E simulation_id \in LookupIds :
          \/ GetSimulationResults(simulation_id)
          \/ DeleteSimulation(simulation_id)
    \/ GetAllSimulations

SpecStore == InitStore /\ [][NextStore]_vars

\* ------------------------------------------------------------------------
\* Specification: the objects store (objects.py): create, read, update and
\* delete of vehicles and of delivery points in any order
\* ------------------------------------------------------------------------
\* f"vehicle-{uuid.uuid4()}" and f"dp-{uuid.uuid4()}" for the n-th draw
VehicleUuidIds == <<"vehicle-1", "vehicle-2", "vehicle-3", "vehicle-4">>
PointUuidIds == <<"dp-1", "dp-2", "dp-3", "dp-4">>

\* next((i for i, v in enumerate(items) if v.id == id), None); 0 for None
RECURSIVE first_index(_, _, _)
first_index(items, id, i) ==
    IF i > Len(items) THEN 0
    ELSE IF items[i].id = id THEN i
    ELSE first_index(items, id, i + 1)

\* [v for v in items if v.id != id]
without_id(items, id) == SelectSeq(items, LAMBDA v : v.id /= id)

\* create_vehicle / create_delivery_point: an empty id is replaced by a
\* generated one, the object is appended
create_object(items, object, generated_id) ==
    LET created == IF object.id = "" THEN [object EXCEPT !.id = generated_id]
                   ELSE object
    IN [status_code |-> 200, items |-> Append(items, created), body |-> <<created>>]

\* get_vehicle / get_delivery_point: the first entry with the id, else 404
get_object(items, id) ==
    LET idx == first_index(items, id, 1)
    IN IF idx = 0 THEN [status_code |-> 404, body |-> <<>>]
       ELSE [status_code |-> 200, body |-> <<items[idx]>>]

\* update_vehicle / update_delivery_point: the first entry with the id is
\* replaced by the object, which takes the id of the path; else 404
update_object(items, id, object) ==
    LET idx == first_index(items, id, 1)
        updated == [object EXCEPT !.id = id]
    IN IF idx = 0 THEN [status_code |-> 404, items |-> items, body |-> <<>>]
       ELSE [status_code |-> 200, items |-> [items EXCEPT ![idx] = updated],
             body |-> <<updated>>]

\* a delete that drops the first entry with the id only
delete_object_first(items, id) ==
    LET idx == first_index(items, id, 1)
    IN [status_code |-> 200,
        items |-> IF idx = 0 THEN items
                  ELSE SubSeq(items, 1, idx - 1) \o SubSeq(items, idx + 1, Len(items)),
        body |-> <<>>]

\* delete_vehicle / delete_delivery_point: every entry with the id goes
delete_object(items, id) ==
    [status_code |-> 200, items |-> without_id(items, id), body |-> <<>>]

\* the objects the store holds at most, over both collections; also the
\* uuid4 draws made for objects
MaxObjects == 2

StoreSize == Len(storage.vehicles) + Len(storage.delivery_points)

StoreVehicle(id, capacity) ==
    [id |-> id, capacity |-> capacity, current_location |-> LocA, status |-> IDLE,
     route |-> <<>>]

ObjectVehicleInputs == {StoreVehicle(id, c) : id \in {"", "v1"}, c \in {10, 20}}
ObjectVehicleIds == {"v1", VehicleUuidIds[1]}

ObjectPointInputs == {[id |-> id, demand |-> d] : id \in {"", "p1"}, d \in {5, 30}}
ObjectPointIds == {"p1", PointUuidIds[1]}

\* whether the call draws a uuid4, and the id it would give
DrawsUuid(object) == object.id = ""

CreateVehicle(vehicle) ==
    /\ StoreSize < MaxObjects
    /\ DrawsUuid(vehicle) => uuid_count < MaxObjects
    /\ LET res == create_object(storage.vehicles, vehicle, VehicleUuidIds[uuid_count + 1])
       IN /\ storage' = [storage EXCEPT !.vehicles = res.items]
          /\ object_call' = [op |-> "create_vehicle", id |-> res.body[1].id,
                             status_code |-> res.status_code, body |-> res.body,
                             matched |-> Len(storage.vehicles) - Len(without_id(storage.vehicles, res.body[1].id))]
    /\ uuid_count' = IF DrawsUuid(vehicle) THEN uuid_count + 1 ELSE uuid_count
    /\ UNCHANGED <<request, heap, run, simulations_storage, city_call, impact_call,
                   store_call, predictor, index_call,
                   routing_call, optimize_call, ai_call>>

GetVehicle(vehicle_id) ==
    /\ LET res == get_object(storage.vehicles, vehicle_id)
       IN object_call' = [op |-> "get_vehicle", id |-> vehicle_id,
                          status_code |-> res.status_code, body |-> res.body,
                          matched |-> Len(storage.vehicles) - Len(without_id(storage.vehicles, vehicle_id))]
    /\ UNCHANGED <<request, heap, run, simulations_storage, uuid_count, city_call,
                   impact_call, store_call, storage, predictor, index_call,
                   routing_call, optimize_call, ai_call>>

UpdateVehicle(vehicle_id, vehicle) ==
    /\ LET res == update_object(storage.vehicles, vehicle_id, vehicle)
       IN /\ storage' = [storage EXCEPT !.vehicles = res.items]
          /\ object_call' = [op |-> "update_vehicle", id |-> vehicle_id,
                             status_code |-> res.status_code, body |-> res.body,
                             matched |-> Len(storage.vehicles) - Len(without_id(storage.vehicles, vehicle_id))]
    /\ UNCHANGED <<request, heap, run, simulations_storage, uuid_count, city_call,
                   impact_call, store_call, predictor, index_call,
                   routing_call, optimize_call, ai_call>>

DeleteVehicle(vehicle_id) ==
    /\ LET res == delete_object(storage.vehicles, vehicle_id)
       IN /\ storage' = [storage EXCEPT !.vehicles = res.items]
          /\ object_call' = [op |-> "delete_vehicle", id |-> vehicle_id,
                             status_code |-> res.status_code, body |-> res.body,
                             matched |-> Len(storage.vehicles) - Len(without_id(storage.vehicles, vehicle_id))]
    /\ UNCHANGED <<request, heap, run, simulations_storage, uuid_count, city_call,
                   impact_call, store_call, predictor, index_call,
                   routing_call, optimize_call, ai_call>>

CreateDeliveryPoint(point) ==
    /\ StoreSize < MaxObjects
    /\ DrawsUuid(point) => uuid_count < MaxObjects
    /\ LET res == create_object(storage.delivery_points, point,
                                PointUuidIds[uuid_count + 1])
       IN /\ storage' = [storage EXCEPT !.delivery_points = res.items]
          /\ object_call' = [op |-> "create_delivery_point", id |-> res.body[1].id,
                             status_code |-> res.status_code, body |-> res.body,
                             matched |-> Len(storage.delivery_points) - Len(without_id(storage.delivery_points, res.body[1].id))]
    /\ uuid_count' = IF DrawsUuid(point) THEN uuid_count + 1 ELSE uuid_count
    /\ UNCHANGED <<request, heap, run, simulations_storage, city_call, impact_call,
                   store_call, predictor, index_call,
                   routing_call, optimize_call, ai_call>>

GetDeliveryPoint(point_id) ==
    /\ LET res == get_object(storage.delivery_points, point_id)
       IN object_call' = [op |-> "get_delivery_point", id |-> point_id,
                          status_code |-> res.status_code, body |-> res.body,
                          matched |-> Len(storage.delivery_points) - Len(without_id(storage.delivery_points, point_id))]
    /\ UNCHANGED <<request, heap, run, simulations_storage, uuid_count, city_call,
                   impact_call, store_call, storage, predictor, index_call,
                   routing_call, optimize_call, ai_call>>

UpdateDeliveryPoint(point_id, point) ==
    /\ LET res == update_object(storage.delivery_points, point_id, point)
       IN /\ storage' = [storage EXCEPT !.delivery_points = res.items]
          /\ object_call' = [op |-> "update_delivery_point", id |-> point_id,
                             status_code |-> res.status_code, body |-> res.body,
                             matched |-> Len(storage.delivery_points) - Len(without_id(storage.delivery_points, point_id))]
    /\ UNCHANGED <<request, heap, run, simulations_storage, uuid_count, city_call,
                   impact_call, store_call, predictor, index_call,
                   routing_call, optimize_call, ai_call>>

DeleteDeliveryPoint(point_id) ==
    /\ LET res == delete_object(storage.delivery_points, point_id)
       IN /\ storage' = [storage EXCEPT !.delivery_points = res.items]
          /\ object_call' = [op |-> "delete_delivery_point", id |-> point_id,
                             status_code |-> res.status_code, body |-> res.body,
                             matched |-> Len(storage.delivery_points) - Len(without_id(storage.delivery_points, point_id))]
    /\ UNCHANGED <<request, heap, run, simulations_storage, uuid_count, city_call,
                   impact_call, store_call, predictor, index_call,
                   routing_call, optimize_call, ai_call>>

InitObjects ==
    /\ request = NoRequest
    /\ heap = EmptyDict
    /\ run = [r \in Runs |-> NoRun]
    /\ simulations_storage = EmptyDict
    /\ uuid_count = 0
    /\ store_call = NoStoreCall
    /\ storage = NoStorage
    /\ predictor = NoPredictor
    /\ index_call = NoIndexCall
    /\ object_call = NoObjectCall
    /\ routing_call = NoRoutingCall
    /\ optimize_call = NoOptimizeCall
    /\ ai_call = NoAiCall
    /\ city_call = NoCityCall
    /\ impact_call = NoImpactCall

NextObjects ==
    \/ \E vehicle \in ObjectVehicleInputs :
          \/ CreateVehicle(vehicle)
          \/ \E vehicle_id \in ObjectVehicleIds : UpdateVehicle(vehicle_id, vehicle)
    \/ \E vehicle_id \in ObjectVehicleIds :
          \/ GetVehicle(vehicle_id)
          \/ DeleteVehicle(vehicle_id)
    \/ \E point \in ObjectPointInputs :
          \/ CreateDeliveryPoint(point)
          \/ \E point_id \in ObjectPointIds : UpdateDeliveryPoint(point_id, point)
    \/ \E point_id \in ObjectPointIds :
          \/ GetDeliveryPoint(point_id)
          \/ DeleteDeliveryPoint(point_id)

SpecObjects == InitObjects /\ [][NextObjects]_vars

\* ------------------------------------------------------------------------
\* Specification: TrafficPredictor (ml/predictor.py): construction in any
\* environment, then calls of predict_traffic
\* ------------------------------------------------------------------------
\* route_features.get(key, default)
FeatureGet(route_features, key, default) ==
    IF key \in DOMAIN route_features THEN route_features[key] ELSE default

\* _fallback_prediction: current_traffic_score, duration_min, confidence
\* and the delay are in tenths; the delay factors are in hundredths
_fallback_prediction(route_features) ==
    LET traffic_score == FeatureGet(route_features, "current_traffic_score", 50)
        hour == FeatureGet(route_features, "hour", 12)
        day_of_week == FeatureGet(route_features, "day_of_week", 0)
        duration_min == FeatureGet(route_features, "duration_min", 100)
        is_rush_hour == (7 <= hour /\ hour <= 9) \/ (17 <= hour /\ hour <= 19)
        is_weekend == day_of_week >= 5
        shifted == IF is_rush_hour /\ ~is_weekend THEN traffic_score + 20
                   ELSE IF is_weekend THEN traffic_score - 10
                   ELSE traffic_score
        adjusted_score == Max(0, Min(100, shifted))
        level == IF adjusted_score < 30 THEN "low"
                 ELSE IF adjusted_score < 60 THEN "medium"
                 ELSE IF adjusted_score < 80 THEN "high"
                 ELSE "severe"
        delay_factor == IF adjusted_score < 30 THEN 5
                        ELSE IF adjusted_score < 60 THEN 15
                        ELSE IF adjusted_score < 80 THEN 30
                        ELSE 50
    IN [predicted_level |-> level, confidence |-> 6,
        estimated_delay_minutes |-> RoundDiv(duration_min * delay_factor, 100)]

\* _interpret_prediction: raw_value is in hundredths, duration_min and the
\* delay in tenths
_interpret_prediction(raw_value, context) ==
    LET level == IF raw_value < 20 THEN "low"
                 ELSE IF raw_value < 50 THEN "medium"
                 ELSE IF raw_value < 80 THEN "high"
                 ELSE "severe"
        base_duration == FeatureGet(context, "duration_min", 100)
    IN [predicted_level |-> level, confidence |-> 8,
        estimated_delay_minutes |-> RoundDiv(base_duration * raw_value, 200)]

\* what the constructor meets: whether both files exist, and how the import
\* of the ML libraries and the two loads end
PredictorEnvs ==
    [files_exist : BOOLEAN, import : {"ok", "ImportError"},
     load_model : {"ok", "raise"}, load_scaler : {"ok", "raise"}]

\* __init__: the fields after construction
predictor_init(env) ==
    IF ~env.files_exist \/ env.import /= "ok" \/ env.load_model /= "ok"
    THEN [model |-> "None", scaler |-> "None", using_fallback |-> TRUE]
    ELSE IF env.load_scaler /= "ok"
    THEN [model |-> "loaded", scaler |-> "None", using_fallback |-> TRUE]
    ELSE [model |-> "loaded", scaler |-> "loaded", using_fallback |-> FALSE]

\* how the ML branch ends: an exception at one of its statements, or the
\* value the model predicts, in hundredths
MlOutcomes ==
    {[raises |-> at, value |-> 0] : at \in {"import", "transform", "predict"}}
        \cup {[raises |-> "no", value |-> v] : v \in {10, 30, 60, 90}}
MlRaises(ml) == ml.raises /= "no"

\* predict_traffic without the try / except around the ML branch
predict_traffic_unguarded(self, route_features, ml) ==
    IF self.using_fallback \/ self.model = "None" \/ self.scaler = "None"
    THEN [raised |-> FALSE, path |-> "fallback",
          result |-> _fallback_prediction(route_features)]
    ELSE IF MlRaises(ml)
    THEN [raised |-> TRUE, path |-> "ml", result |-> NoPrediction]
    ELSE [raised |-> FALSE, path |-> "ml",
          result |-> _interpret_prediction(ml.value, route_features)]

\* predict_traffic: the branch taken and what is returned
predict_traffic(self, route_features, ml) ==
    IF self.using_fallback \/ self.model = "None" \/ self.scaler = "None"
    THEN [raised |-> FALSE, path |-> "fallback",
          result |-> _fallback_prediction(route_features)]
    ELSE IF MlRaises(ml)
    THEN [raised |-> FALSE, path |-> "except",
          result |-> _fallback_prediction(route_features)]
    ELSE [raised |-> FALSE, path |-> "ml",
          result |-> _interpret_prediction(ml.value, route_features)]

\* route_features as routes.py builds them (line 289-295), and with keys
\* left out
FullFeatures ==
    {[distance_km |-> 500, duration_min |-> d, hour |-> h, day_of_week |-> w,
      current_traffic_score |-> t] :
        d \in {100, 300}, h \in {8, 12}, w \in {0, 6}, t \in {0, 20, 50, 75, 100}}

PartialFeatures ==
    {[distance_km |-> 500], [hour |-> 18], [day_of_week |-> 5, duration_min |-> 300]}

FeatureInputs == FullFeatures \cup PartialFeatures

PredictorConstruct(env) ==
    /\ predictor.pc = "none"
    /\ LET self == predictor_init(env)
       IN predictor' = [predictor EXCEPT !.pc = "constructed", !.model = self.model,
                                         !.scaler = self.scaler,
                                         !.using_fallback = self.using_fallback]
    /\ UNCHANGED <<request, heap, run, simulations_storage, uuid_count, city_call,
                   impact_call, store_call, storage, index_call, object_call,
                   routing_call, optimize_call, ai_call>>

PredictTraffic(route_features, ml) ==
    /\ predictor.pc \in {"constructed", "returned", "raised"}
    /\ LET res == predict_traffic(predictor, route_features, ml)
       IN predictor' = [predictor EXCEPT
              !.pc = IF res.raised THEN "raised" ELSE "returned",
              !.route_features = route_features, !.ml = ml,
              !.path = res.path, !.result = res.result]
    /\ UNCHANGED <<request, heap, run, simulations_storage, uuid_count, city_call,
                   impact_call, store_call, storage, index_call, object_call,
                   routing_call, optimize_call, ai_call>>

InitPredictor ==
    /\ request = NoRequest
    /\ heap = EmptyDict
    /\ run = [r \in Runs |-> NoRun]
    /\ simulations_storage = EmptyDict
    /\ uuid_count = 0
    /\ store_call = NoStoreCall
    /\ storage = NoStorage
    /\ predictor = NoPredictor
    /\ index_call = NoIndexCall
    /\ object_call = NoObjectCall
    /\ routing_call = NoRoutingCall
    /\ optimize_call = NoOptimizeCall
    /\ ai_call = NoAiCall
    /\ city_call = NoCityCall
    /\ impact_call = NoImpactCall

NextPredictor ==
    \/ \E env \in PredictorEnvs : PredictorConstruct(env)
    \/ \E route_features \in FeatureInputs, ml \in MlOutcomes :
          PredictTraffic(route_features, ml)

SpecPredictor == InitPredictor /\ [][NextPredictor]_vars

\* ------------------------------------------------------------------------
\* Specification: _route_index_for_hour over the hours of one run, for any
\* route length and duration (simulation.py:175-181, called at line 208 for
\* hour in range(duration_hours))
\* ------------------------------------------------------------------------
MaxRouteLength == 5
MaxIndexDuration == 6

RouteIndexForHour ==
    /\ index_call.pc = "loop"
    /\ ~loop_done(index_call.hour, index_call.duration_hours)
    /\ index_call' = [index_call EXCEPT
           !.hour = @ + 1,
           !.indices = Append(@, _route_index_for_hour(index_call.route_length,
                                     index_call.hour, index_call.duration_hours))]
    /\ UNCHANGED <<request, heap, run, simulations_storage, uuid_count, city_call,
                   impact_call, store_call, storage, predictor, object_call,
                   routing_call, optimize_call, ai_call>>

InitRoute ==
    /\ request = NoRequest
    /\ heap = EmptyDict
    /\ run = [r \in Runs |-> NoRun]
    /\ simulations_storage = EmptyDict
    /\ uuid_count = 0
    /\ store_call = NoStoreCall
    /\ storage = NoStorage
    /\ predictor = NoPredictor
    /\ index_call \in [pc : {"loop"}, route_length : 1..MaxRouteLength,
                       duration_hours : 1..MaxIndexDuration, hour : {0},
                       indices : {<<>>}]
    /\ object_call = NoObjectCall
    /\ routing_call = NoRoutingCall
    /\ optimize_call = NoOptimizeCall
    /\ ai_call = NoAiCall
    /\ city_call = NoCityCall
    /\ impact_call = NoImpactCall

NextRoute == RouteIndexForHour

SpecRoute == InitRoute /\ [][NextRoute]_vars

\* ------------------------------------------------------------------------
\* Specification: one call of run_simulation on a fleet of up to MaxFleet
\* vehicles of three kinds
\* ------------------------------------------------------------------------
MaxFleet == 3

FleetVehicleInputs ==
    {[id |-> "v1", capacity |-> 10, current_location |-> LocA, status |-> IDLE,
      route |-> <<LocA, LocB, LocC>>],
     [id |-> "v2", capacity |-> 10, current_location |-> LocA, status |-> S_MovingRaw,
      route |-> <<>>],
     [id |-> "v3", capacity |-> 10, current_location |-> LocB, status |-> COMPLETED,
      route |-> <<>>]}

FleetRequests ==
    [vehicles : SeqsUpTo(FleetVehicleInputs, MaxFleet),
     delivery_points : {<<[id |-> "p1", demand |-> 30]>>},
     start_time : StartTimes, duration_hours : 0..2]

InitFleet ==
    /\ request \in FleetRequests
    /\ heap = InitialHeap(request)
    /\ run = [r \in Runs |-> NoRun]
    /\ simulations_storage = EmptyDict
    /\ uuid_count = 0
    /\ store_call = NoStoreCall
    /\ storage = NoStorage
    /\ predictor = NoPredictor
    /\ index_call = NoIndexCall
    /\ object_call = NoObjectCall
    /\ routing_call = NoRoutingCall
    /\ optimize_call = NoOptimizeCall
    /\ ai_call = NoAiCall
    /\ city_call = NoCityCall
    /\ impact_call = NoImpactCall

NextFleet ==
    \/ RunReject("r1")
    \/ RunStart("r1")
    \/ RunTick("r1")
    \/ RunFinish("r1")

SpecFleet == InitFleet /\ [][NextFleet]_vars

\* ------------------------------------------------------------------------
\* Specification: calls of fetch_route_alternatives (services/routing.py)
\* ------------------------------------------------------------------------
\* transport modes as Python strings
M_driving == <<"d","r","i","v","i","n","g">>
M_walking == <<"w","a","l","k","i","n","g">>
M_cycling == <<"c","y","c","l","i","n","g">>
M_walk == <<"w","a","l","k">>
M_foot == <<"f","o","o","t">>
M_bike == <<"b","i","k","e">>
M_bicycle == <<"b","i","c","y","c","l","e">>
M_plane == <<"p","l","a","n","e">>

\* _normalize_transport_mode (routing.py:119-125); routes.py:240-246 has the
\* same body under the name _normalize_mode
_normalize_transport_mode(mode) ==
    LET value == StrLower(StrStrip(mode))
    IN IF value \in {M_walking, M_walk, M_foot} THEN M_walking
       ELSE IF value \in {M_cycling, M_bike, M_bicycle} THEN M_cycling
       ELSE M_driving

\* _FALLBACK_SPEED_KMH, in tenths of a km/h
_FALLBACK_SPEED_KMH == (M_driving :> 300) @@ (M_walking :> 48) @@ (M_cycling :> 150)

\* Coordinates are (longitude, latitude) in hundredths of a degree.
\* (82.61, 49.95) and (82.70, 50.05) are the example of route_models.py;
\* (0.0, 8.0) and (-180.0, -8.0) are antipodes.
O82 == <<8261, 4995>>
D82 == <<8270, 5005>>
E08 == <<0, 800>>
A08 == <<-18000, -800>>

\* The haversine term a of lines 259-265 as IEEE doubles give it: for the
\* antipodes above a = 1.0000000000000002, so that sqrt(1 - a) has a
\* negative argument and math.sqrt raises ValueError.
haversine_a_over_one(origin, destination) == {origin, destination} = {E08, A08}

\* 6371 * c of lines 266-268 in units of 1e-4 km, for the pairs it is
\* defined on
beeline_km(origin, destination) ==
    IF origin = destination THEN 0
    ELSE IF {origin, destination} = {O82, D82} THEN 128461
    ELSE 0

NoRoute == [distance_km |-> 0, duration_min |-> 0, geometry |-> <<>>,
            traffic_score |-> 0, main_road |-> "", transport_mode |-> <<>>]

\* _create_fallback_route: distance_km in hundredths, duration_min and
\* traffic_score in tenths; raises is the exception that leaves the function
_create_fallback_route(origin, destination, mode) ==
    IF haversine_a_over_one(origin, destination)
    THEN [raises |-> "ValueError", route |-> NoRoute]
    ELSE LET road_factor == IF mode = M_driving THEN 145 ELSE 118
             estimated_road_distance == beeline_km(origin, destination) * road_factor
             speed_kmh == Max(_FALLBACK_SPEED_KMH[mode], 10)
             traffic_score == IF mode = M_walking THEN 15
                              ELSE IF mode = M_cycling THEN 20
                              ELSE 50
         IN [raises |-> "no",
             route |-> [distance_km |-> RoundDiv(estimated_road_distance, 10000),
                        duration_min |-> RoundDiv(estimated_road_distance * 6,
                                                  1000 * speed_kmh),
                        geometry |-> <<origin, destination>>,
                        traffic_score |-> traffic_score,
                        main_road |-> "estimated route",
                        transport_mode |-> mode]]

\* _extract_traffic_score for route data without legs, in tenths: the
\* class of duration_min / distance_km
_extract_traffic_score(route_data, mode) ==
    IF mode = M_walking THEN 15
    ELSE IF mode = M_cycling THEN 20
    ELSE IF route_data.distance <= 0 THEN 50
    ELSE LET ratio_num == route_data.duration * 1000
             ratio_den == 60 * route_data.distance
         IN IF ratio_num * 10 < 12 * ratio_den THEN 20
            ELSE IF ratio_num * 10 < 18 * ratio_den THEN 50
            ELSE IF ratio_num * 10 < 25 * ratio_den THEN 75
            ELSE 90

\* _parse_mapbox_response on a dict: an entry that cannot be read (it is
\* not an object) is skipped, the others give a route each.  distance is in
\* metres and duration in seconds.
RECURSIVE _parse_mapbox_response(_, _)
_parse_mapbox_response(raw_routes, mode) ==
    IF raw_routes = <<>> THEN <<>>
    ELSE LET route_data == Head(raw_routes)
             rest == _parse_mapbox_response(Tail(raw_routes), mode)
         IN IF ~route_data.is_object THEN rest
            ELSE <<[distance_km |-> RoundDiv(route_data.distance, 10),
                    duration_min |-> RoundDiv(route_data.duration, 6),
                    geometry |-> route_data.coordinates,
                    traffic_score |-> _extract_traffic_score(route_data, mode),
                    main_road |-> "main route",
                    transport_mode |-> mode]>> \o rest

\* the single fallback route, or the exception _create_fallback_route raised
fallback_routes(origin, destination, mode) ==
    LET fallback == _create_fallback_route(origin, destination, mode)
    IN IF fallback.raises /= "no"
       THEN [raised |-> fallback.raises, routes |-> <<>>, fallback_used |-> TRUE]
       ELSE [raised |-> "no", routes |-> <<fallback.route>>, fallback_used |-> TRUE]

\* fetch_route_alternatives.  provider is how the request to the provider
\* ends: kind is the exception urlopen or json.loads raises ("HTTPError",
\* "URLError", "JSONDecodeError", "Exception"), or "not_dict" for JSON that
\* is no object (data.get raises AttributeError, caught at line 114), or
\* "dict" with the entries under "routes".
fetch_route_alternatives(origin, destination, access_token, transport_mode, provider) ==
    LET mode == _normalize_transport_mode(transport_mode)
    IN IF access_token = "" \/ access_token = "your_mapbox_access_token_here"
       THEN fallback_routes(origin, destination, mode)
       ELSE IF provider.kind /= "dict"
       THEN fallback_routes(origin, destination, mode)
       ELSE LET routes == _parse_mapbox_response(provider.routes, mode)
            IN IF routes = <<>>
               THEN fallback_routes(origin, destination, mode)
               ELSE [raised |-> "no", routes |-> routes, fallback_used |-> FALSE]

\* the routes of a provider answer: up to MaxProviderRoutes entries
MaxProviderRoutes == 2

RouteData ==
    {[is_object |-> TRUE, distance |-> m, duration |-> s, coordinates |-> <<O82, D82>>] :
         m \in {5000, 12000}, s \in {600, 1500}}
        \cup {[is_object |-> FALSE, distance |-> 0, duration |-> 0, coordinates |-> <<>>]}

ProviderOutcomes ==
    {[kind |-> k, routes |-> <<>>] :
         k \in {"HTTPError", "URLError", "JSONDecodeError", "Exception", "not_dict"}}
        \cup {[kind |-> "dict", routes |-> rs] : rs \in SeqsUpTo(RouteData, MaxProviderRoutes)}

RoutePairs == {<<O82, D82>>, <<D82, O82>>, <<O82, O82>>, <<E08, A08>>}
AccessTokens == {"", "your_mapbox_access_token_here", "pk.token"}
TransportModes == {M_driving, <<" ">> \o StrUpper(M_walk), M_bicycle, M_plane, <<>>}

RoutingInputs ==
    {[pc |-> "ready", origin |-> p[1], destination |-> p[2], access_token |-> t,
      transport_mode |-> m, provider |-> o,
      result |-> [raised |-> "no", routes |-> <<>>, fallback_used |-> FALSE]] :
         p \in RoutePairs, t \in AccessTokens, m \in TransportModes,
         o \in ProviderOutcomes}

FetchRouteAlternatives ==
    /\ routing_call.pc = "ready"
    /\ routing_call' = [routing_call EXCEPT
           !.pc = "done",
           !.result = fetch_route_alternatives(routing_call.origin,
                          routing_call.destination, routing_call.access_token,
                          routing_call.transport_mode, routing_call.provider)]
    /\ UNCHANGED <<request, heap, run, simulations_storage, uuid_count, city_call,
                   impact_call, store_call, storage, predictor, index_call, object_call,
                   optimize_call, ai_call>>

InitRouting ==
    /\ request = NoRequest
    /\ heap = EmptyDict
    /\ run = [r \in Runs |-> NoRun]
    /\ simulations_storage = EmptyDict
    /\ uuid_count = 0
    /\ city_call = NoCityCall
    /\ impact_call = NoImpactCall
    /\ store_call = NoStoreCall
    /\ storage = NoStorage
    /\ predictor = NoPredictor
    /\ index_call = NoIndexCall
    /\ object_call = NoObjectCall
    /\ optimize_call = NoOptimizeCall
    /\ ai_call = NoAiCall
    /\ routing_call \in RoutingInputs

NextRouting == FetchRouteAlternatives

SpecRouting == InitRouting /\ [][NextRouting]_vars

\* ------------------------------------------------------------------------
\* Specification: calls of optimize_route (routers/routes.py:44-159)
\* ------------------------------------------------------------------------
\* MODE_LABELS
MODE_LABELS == (M_driving :> "Car") @@ (M_walking :> "Walk") @@ (M_cycling :> "Bike")

\* _normalize_mode
_normalize_mode(mode) ==
    LET value == StrLower(StrStrip(mode))
    IN IF value \in {M_walk, M_walking, M_foot} THEN M_walking
       ELSE IF value \in {M_bike, M_bicycle, M_cycling} THEN M_cycling
       ELSE M_driving

\* _validate_coordinates: the status it raises, or 200; coordinates are in
\* hundredths of a degree
_validate_coordinates(coords) ==
    LET lon == coords[1]
        lat == coords[2]
    IN IF ~(-18000 <= lon /\ lon <= 18000) THEN 400
       ELSE IF ~(-9000 <= lat /\ lat <= 9000) THEN 400
       ELSE 200

\* _level_from_score, the score in tenths
_level_from_score(score) ==
    IF score < 30 THEN "low"
    ELSE IF score < 60 THEN "medium"
    ELSE IF score < 80 THEN "high"
    ELSE "severe"

\* _predict_for_mode: traffic_score, duration_min and the delay in tenths,
\* confidence in hundredths (the predictor's confidence is in tenths).
\* self is the module's predictor (routes.py:27) and ml how its ML branch
\* ends.
_predict_for_mode(route, now, include_prediction, mode, self, ml) ==
    LET traffic_score == route.traffic_score
    IN IF ~include_prediction
       THEN [predicted_level |-> _level_from_score(traffic_score), confidence |-> 50,
             estimated_delay_minutes |-> 0]
       ELSE IF mode = M_driving
       THEN LET route_features == [distance_km |-> route.distance_km,
                                   duration_min |-> route.duration_min,
                                   hour |-> now.hour,
                                   day_of_week |-> now.weekday,
                                   current_traffic_score |-> traffic_score]
                prediction == predict_traffic(self, route_features, ml).result
            IN [prediction EXCEPT !.confidence = 10 * prediction.confidence]
       ELSE IF mode = M_walking
       THEN [predicted_level |-> "low", confidence |-> 80, estimated_delay_minutes |-> 0]
       ELSE LET delay_factor == IF traffic_score < 60 THEN 2 ELSE 6
                predicted == IF traffic_score < 60 THEN "low" ELSE "medium"
            IN [predicted_level |-> predicted, confidence |-> 72,
                estimated_delay_minutes |-> RoundDiv(route.duration_min * delay_factor, 100)]

\* the RouteDetail built for raw_routes[idx] (lines 78-104); idx counts from
\* 0 and stands for the route_id "route_{idx}"; the summary is kept as its
\* three parts, the distance with one decimal
route_detail(route, idx, now, include_prediction, mode, self, ml) ==
    LET prediction == _predict_for_mode(route, now, include_prediction, mode, self, ml)
        total_duration == route.duration_min + prediction.estimated_delay_minutes
    IN [route_id |-> idx,
        distance_km |-> route.distance_km,
        duration_minutes |-> route.duration_min,
        duration_with_traffic_minutes |-> total_duration,
        traffic_prediction |-> prediction,
        geometry |-> route.geometry,
        summary |-> [km |-> RoundDiv(route.distance_km, 10), via |-> route.main_road,
                     label |-> MODE_LABELS[mode]]]

\* the scan of _choose_fastest_route from position idx (counted from 1) on
RECURSIVE fastest_from(_, _, _, _)
fastest_from(routes, idx, best_index, best_duration) ==
    IF idx > Len(routes) THEN best_index
    ELSE IF routes[idx].duration_with_traffic_minutes < best_duration
    THEN fastest_from(routes, idx + 1, idx - 1,
                      routes[idx].duration_with_traffic_minutes)
    ELSE fastest_from(routes, idx + 1, best_index, best_duration)

\* _choose_fastest_route: an index counted from 0
_choose_fastest_route(routes) ==
    IF routes = <<>> THEN 0
    ELSE fastest_from(routes, 1, 0, routes[1].duration_with_traffic_minutes)

\* "sub in s" of Python strings
StrContains(s, sub) ==
    \E k \in 0..(Len(s) - Len(sub)) : SubSeq(s, k + 1, k + Len(sub)) = sub

\* str(i) for one digit, and the words the recommendation is searched for
Digits == <<"0", "1", "2", "3", "4", "5", "6", "7", "8", "9">>
StrOfInt(i) == <<Digits[i + 1]>>
W_route == <<"r","o","u","t","e">>
W_ru_route == <<"cyr_em","cyr_a","cyr_er","cyr_sha","cyr_er","cyr_u","cyr_te">>

\* whether the text names route i (lines 437-440)
names_route(text_lower, i) ==
    \/ StrContains(text_lower, W_ru_route \o <<" ">> \o StrOfInt(i))
    \/ StrContains(text_lower, W_route \o <<" ">> \o StrOfInt(i))
    \/ StrContains(text_lower, W_ru_route \o <<" ", "#">> \o StrOfInt(i))
    \/ StrContains(text_lower, W_route \o <<" ", "#">> \o StrOfInt(i))

\* the number the text names, with no look at how many routes there are
_extract_recommended_route_unbounded(ai_text, num_routes) ==
    LET text_lower == StrLower(ai_text)
        named == {i \in 0..9 : names_route(text_lower, i)}
    IN IF ai_text = <<>> \/ named = {} THEN 0
       ELSE CHOOSE i \in named : \A j \in named : i <= j

\* _extract_recommended_route: the first i of range(num_routes) the text
\* names, else 0
_extract_recommended_route(ai_text, num_routes) ==
    LET text_lower == StrLower(ai_text)
        named == {i \in 0..(num_routes - 1) : names_route(text_lower, i)}
    IN IF ai_text = <<>> \/ named = {} THEN 0
       ELSE CHOOSE i \in named : \A j \in named : i <= j

\* _call_grok_ai (lines 372-427).  grok is how the request ends: kind is
\* the exception urlopen or json.loads raises, "no_choices" for an answer
\* without choices, "content_none" for a content that is neither a string
\* nor a list, "content_str" for a string content.  Nothing in the function
\* catches an exception.
_call_grok_ai(api_key, grok) ==
    IF api_key = "" \/ api_key = "your_xai_api_key_here"
    THEN [raised |-> TRUE, text |-> <<>>]
    ELSE IF grok.kind = "content_str"
    THEN [raised |-> FALSE, text |-> StrStrip(grok.content)]
    ELSE [raised |-> TRUE, text |-> <<>>]

NoOptimizeResponse ==
    [status_code |-> 0, routes |-> <<>>, ai_recommendation |-> None,
     recommended_route_index |-> 0,
     metadata |-> [num_routes |-> 0, ai_used |-> FALSE, ml_used |-> FALSE,
                   ml_fallback |-> FALSE, transport_mode |-> <<>>]]

\* optimize_route.  env holds what the call meets outside the payload: the
\* two keys, how the two provider calls end, the clock, the predictor
\* object and how its ML branch ends.  An exception that leaves the handler
\* is status 500.
optimize_route(payload, env) ==
    IF _validate_coordinates(payload.origin) /= 200
       \/ _validate_coordinates(payload.destination) /= 200
    THEN [NoOptimizeResponse EXCEPT !.status_code = 400]
    ELSE
    LET mode == _normalize_mode(payload.transport_mode)
        fetched == fetch_route_alternatives(payload.origin, payload.destination,
                                            env.access_token, mode, env.provider)
        raw_routes == fetched.routes
    IN IF fetched.raised /= "no"
       THEN [NoOptimizeResponse EXCEPT !.status_code = 500]
       ELSE IF raw_routes = <<>>
       THEN [NoOptimizeResponse EXCEPT !.status_code = 503]
       ELSE
       LET routes_with_predictions ==
               [k \in 1..Len(raw_routes) |->
                   route_detail(raw_routes[k], k - 1, env.now,
                                payload.include_traffic_prediction, mode,
                                env.predictor, env.ml)]
           fastest == _choose_fastest_route(routes_with_predictions)
           ai == _call_grok_ai(env.api_key, env.grok)
           ai_answered == payload.use_ai_recommendation /\ ~ai.raised
       IN [status_code |-> 200,
           routes |-> routes_with_predictions,
           ai_recommendation |-> IF ai_answered THEN ai.text ELSE None,
           recommended_route_index |->
               IF ai_answered
               THEN _extract_recommended_route(ai.text, Len(routes_with_predictions))
               ELSE fastest,
           metadata |-> [num_routes |-> Len(routes_with_predictions),
                         ai_used |-> ai_answered,
                         ml_used |-> payload.include_traffic_prediction,
                         ml_fallback |-> env.predictor.using_fallback,
                         transport_mode |-> mode]]

\* a longitude out of range
BadLon == <<18100, 0>>

OptimizePairs == {<<O82, D82>>, <<E08, A08>>, <<BadLon, D82>>}

OptimizePayloads ==
    {[origin |-> p[1], destination |-> p[2], transport_mode |-> m,
      include_traffic_prediction |-> ip, use_ai_recommendation |-> ai] :
         p \in OptimizePairs, m \in {M_driving, StrUpper(M_bike)},
         ip \in BOOLEAN, ai \in BOOLEAN}

OptimizeRouteData == {r \in RouteData : r.distance /= 5000}

OptimizeProviderOutcomes ==
    {[kind |-> "URLError", routes |-> <<>>]}
        \cup {[kind |-> "dict", routes |-> rs] :
                 rs \in SeqsUpTo(OptimizeRouteData, MaxProviderRoutes)}

\* the answers of the recommendation service
T_Route1 == <<"R","o","u","t","e"," ","1"," ">>
T_RuRoute1 == <<"\n">> \o StrUpper(W_ru_route) \o <<" ","#","1">>
T_Route1Not0 == W_route \o <<" ","1",",">> \o W_route \o <<" ","0">>
T_Route2 == W_route \o <<" ","#","2">>
T_Blank == <<" ">>

GrokOutcomes ==
    {[kind |-> k, content |-> <<>>] : k \in {"URLError", "no_choices", "content_none"}}
        \cup {[kind |-> "content_str", content |-> t] :
                 t \in {T_Route1, T_RuRoute1, T_Route1Not0, T_Route2, T_Blank}}

\* Monday 8 o'clock, Sunday noon
Clocks == {[hour |-> 8, weekday |-> 0], [hour |-> 12, weekday |-> 6]}

OptimizeEnvs ==
    {[access_token |-> t, provider |-> o, api_key |-> "xai-key", grok |-> g, now |-> c,
      predictor |-> predictor_init(pe), ml |-> ml] :
         t \in {"", "pk.token"}, o \in OptimizeProviderOutcomes, g \in GrokOutcomes,
         c \in Clocks,
         pe \in {e \in PredictorEnvs : e.import = "ok" /\ e.load_model = "ok"
                                        /\ e.load_scaler = "ok"},
         ml \in {[raises |-> "no", value |-> 30]}}
      \cup
    {[access_token |-> "pk.token", provider |-> o, api_key |-> "", grok |-> g, now |-> c,
      predictor |-> predictor_init(pe), ml |-> ml] :
         o \in OptimizeProviderOutcomes,
         g \in {[kind |-> "content_str", content |-> T_Route1]},
         c \in {[hour |-> 8, weekday |-> 0]},
         pe \in {e \in PredictorEnvs : e.files_exist /\ e.import = "ok"
                                        /\ e.load_model = "ok" /\ e.load_scaler = "ok"},
         ml \in {[raises |-> "predict", value |-> 0]}}

OptimizeInputs ==
    {[pc |-> "ready", payload |-> p, env |-> e, response |-> NoOptimizeResponse] :
         p \in OptimizePayloads, e \in OptimizeEnvs}

OptimizeRoute ==
    /\ optimize_call.pc = "ready"
    /\ optimize_call' = [optimize_call EXCEPT
           !.pc = "done",
           !.response = optimize_route(optimize_call.payload, optimize_call.env)]
    /\ UNCHANGED <<request, heap, run, simulations_storage, uuid_count, city_call,
                   impact_call, store_call, storage, predictor, index_call, object_call,
                   routing_call, ai_call>>

InitOptimize ==
    /\ request = NoRequest
    /\ heap = EmptyDict
    /\ run = [r \in Runs |-> NoRun]
    /\ simulations_storage = EmptyDict
    /\ uuid_count = 0
    /\ city_call = NoCityCall
    /\ impact_call = NoImpactCall
    /\ store_call = NoStoreCall
    /\ storage = NoStorage
    /\ predictor = NoPredictor
    /\ index_call = NoIndexCall
    /\ object_call = NoObjectCall
    /\ routing_call = NoRoutingCall
    /\ ai_call = NoAiCall
    /\ optimize_call \in OptimizeInputs

NextOptimize == OptimizeRoute

SpecOptimize == InitOptimize /\ [][NextOptimize]_vars

\* ------------------------------------------------------------------------
\* Specification: calls of call_xai (routers/ai.py) on a store of objects
\* ------------------------------------------------------------------------
\* BRIDGE_RE.search(name): the pattern has two words and ignores case
BRIDGE_RE_search(name) ==
    \/ StrContains(StrLower(name), W_ru_bridge)
    \/ StrContains(StrLower(name), W_bridge)

\* _select_bridge (simulation.py:71-82): the position of the point chosen,
\* 0 for None; an empty bridge_id stands for None as well
_select_bridge(delivery_points, bridge_id) ==
    LET by_id == {i \in 1..Len(delivery_points) : delivery_points[i].id = bridge_id}
        by_name == {i \in 1..Len(delivery_points) :
                       BRIDGE_RE_search(delivery_points[i].name)}
    IN IF bridge_id /= "" /\ by_id /= {}
       THEN CHOOSE i \in by_id : \A j \in by_id : i <= j
       ELSE IF by_name /= {}
       THEN CHOOSE i \in by_name : \A j \in by_name : i <= j
       ELSE 0

\* the default bridge_name, the Russian word for bridge capitalised
W_ru_Bridge == <<"CYR_EM","cyr_o","cyr_es","cyr_te">>

\* build_transport_snapshot (simulation.py:87-135) on the store st.
\* Capacities and the ratio are in hundredths, city_metrics as
\* analyze_city_state gives them.
build_transport_snapshot(st, bridge_id) ==
    LET vehicles == st.vehicles
        delivery_points == st.delivery_points
        bridge == _select_bridge(delivery_points, bridge_id)
        total_vehicles == Len(vehicles)
        moving_count == count_normalized_status(vehicles, MOVING)
        idle_count == count_normalized_status(vehicles, IDLE)
        completed_count == count_normalized_status(vehicles, COMPLETED)
        n == IF total_vehicles > 0 THEN total_vehicles ELSE 1
        m == IF total_vehicles > 0 THEN moving_count ELSE 0
        capacity == total_capacity(vehicles)
        base_flow == RoundDiv((85 + total_vehicles * 14) * n + 180 * m, n)
        detour_rounded == RoundDiv(10 * (18 * n + 28 * m)
                                       + 7 * Min(total_vehicles, 20) * n, 10 * n)
        detour_no_bridge == IF bridge = 0 THEN Max(8, detour_rounded - 6)
                            ELSE detour_rounded
        detour_increase == Min(70, Max(8, detour_no_bridge))
    IN [bridge_id |-> IF bridge /= 0 THEN delivery_points[bridge].id
                      ELSE IF bridge_id /= "" THEN bridge_id ELSE "unknown-bridge",
        bridge_name |-> IF bridge /= 0 THEN delivery_points[bridge].name
                        ELSE W_ru_Bridge,
        base_flow_vehicles_per_hour |-> Max(0, base_flow),
        detour_increase_percent |-> detour_increase,
        estimated_delay_minutes |-> RoundDiv(detour_increase * 65, 100),
        congestion_level |-> IF 4 * m >= 3 * n THEN "high"
                             ELSE IF 10 * m >= 4 * n THEN "medium"
                             ELSE "low",
        total_vehicles |-> total_vehicles,
        moving_vehicles |-> moving_count,
        idle_vehicles |-> idle_count,
        completed_vehicles |-> completed_count,
        total_capacity |-> 100 * capacity,
        average_capacity |-> IF total_vehicles > 0 THEN RoundDiv(100 * capacity, n) ELSE 0,
        moving_ratio_percent |-> RoundDiv(10000 * m, n),
        city_metrics |-> analyze_city_state(vehicles, delivery_points)]

\* build_runtime_context (ai.py:63-83); a client_context without a string
\* under "bridge_id" has bridge_id ""
build_runtime_context(st, client_context) ==
    [runtime |-> [vehicles_count |-> Len(st.vehicles),
                  delivery_points_count |-> Len(st.delivery_points)],
     transport_overview |-> build_transport_snapshot(st, client_context.bridge_id),
     city_metrics |-> analyze_city_state(st.vehicles, st.delivery_points),
     client_context |-> client_context]

\* the words build_local_fallback looks for
W_traffic == <<"t","r","a","f","f","i","c">>
W_air == <<"a","i","r">>
W_ru_traffic == <<"cyr_te","cyr_er","cyr_a","cyr_ef","cyr_i","cyr_ka">>
W_ru_jam == <<"cyr_pe","cyr_er","cyr_o","cyr_be","cyr_ka">>
W_ru_ecolog == <<"cyr_e","cyr_ka","cyr_o","cyr_el","cyr_o","cyr_ge">>
W_ru_emission == <<"cyr_ve","cyr_yeru","cyr_be","cyr_er","cyr_o","cyr_es">>

\* build_local_fallback (ai.py:86-139): the answer is kept as the text
\* chosen (topic) and the numbers formatted into it.  The context of
\* build_runtime_context has all four numbers, so the texts without
\* numbers are not returned.
build_local_fallback(prompt, context) ==
    LET text == StrLower(prompt)
        transport == context.transport_overview
        city == context.city_metrics
    IN IF StrContains(text, W_ru_bridge) \/ StrContains(text, W_bridge)
       THEN [topic |-> "bridge",
             numbers |-> <<transport.base_flow_vehicles_per_hour,
                           transport.detour_increase_percent>>, text |-> <<>>]
       ELSE IF \/ StrContains(text, W_ru_traffic)
               \/ StrContains(text, W_traffic)
               \/ StrContains(text, W_ru_jam)
       THEN [topic |-> "traffic", numbers |-> <<city.traffic_load>>, text |-> <<>>]
       ELSE IF \/ StrContains(text, W_ru_ecolog)
               \/ StrContains(text, W_air)
               \/ StrContains(text, W_ru_emission)
       THEN [topic |-> "ecology", numbers |-> <<city.ecology>>, text |-> <<>>]
       ELSE [topic |-> "general", numbers |-> <<>>, text |-> <<>>]

\* "\n".join(text_parts)
RECURSIVE JoinLines(_)
JoinLines(parts) ==
    IF parts = <<>> THEN <<>>
    ELSE IF Len(parts) = 1 THEN parts[1]
    ELSE parts[1] \o <<"\n">> \o JoinLines(Tail(parts))

\* extract_content (ai.py:142-162) on the parsed answer.  kind says what
\* the JSON value is: "not_dict" (no object: payload.get raises
\* AttributeError), "no_choices", "choices_not_list", "choices_empty",
\* "choice_not_dict" (choices[0].get raises), "message_missing",
\* "message_not_dict" (null or a string under "message": message.get
\* raises), "content_missing", "content_other" (a number), "content_str",
\* "content_list".  The result is the exception raised or the value
\* returned, None or a text.
extract_content(payload) ==
    IF payload.kind \in {"not_dict", "choice_not_dict", "message_not_dict"}
    THEN [raised |-> "AttributeError", content |-> None]
    ELSE IF payload.kind \in {"no_choices", "choices_not_list", "choices_empty",
                              "message_missing", "content_missing", "content_other"}
    THEN [raised |-> "no", content |-> None]
    ELSE IF payload.kind = "content_str"
    THEN LET content == StrStrip(payload.content)
         IN [raised |-> "no", content |-> IF content = <<>> THEN None ELSE content]
    ELSE LET text_parts == SelectSeq(payload.parts, LAMBDA item : item.is_text)
             content == StrStrip(JoinLines([k \in 1..Len(text_parts) |->
                                               text_parts[k].text]))
         IN [raised |-> "no", content |-> IF content = <<>> THEN None ELSE content]

\* the default of XAI_MODEL
M_grok2 == <<"g","r","o","k","-","2","-","l","a","t","e","s","t">>
M_fallback == <<"f","a","l","l","b","a","c","k">>

\* history[-8:]
LastEight(history) ==
    IF Len(history) <= 8 THEN history
    ELSE SubSeq(history, Len(history) - 7, Len(history))

\* the messages of the request body (ai.py:184-194); the two system texts
\* are kept as their names
xai_messages(request_payload) ==
    <<[role |-> "system", content |-> <<"SYSTEM_PROMPT">>],
      [role |-> "system", content |-> <<"context_used">>]>>
        \o LastEight(request_payload.history)
        \o <<[role |-> "user", content |-> request_payload.prompt]>>

\* the response that answers from the local fallback
local_response(request_payload, context_used, messages) ==
    [raised |-> "no",
     answer |-> build_local_fallback(request_payload.prompt, context_used),
     provider |-> "local", model |-> M_fallback, fallback_used |-> TRUE,
     context_used |-> context_used, messages |-> messages]

\* call_xai (ai.py:165-272).  env holds XAI_API_KEY, XAI_MODEL and how the
\* provider call ends: kind is the exception urlopen raises ("HTTPError",
\* "URLError", "Exception"), "JSONDecodeError" for a body that is not JSON,
\* or one of the kinds of extract_content.  messages is what was sent to
\* the provider, empty when nothing was sent.  raised is the exception
\* that leaves call_xai.
call_xai(st, request_payload, env) ==
    LET context_used == build_runtime_context(st, request_payload.context)
        api_key == StrStrip(env.api_key)
        model == IF StrStrip(env.model) = <<>> THEN M_grok2 ELSE StrStrip(env.model)
        messages == xai_messages(request_payload)
    IN IF api_key = <<>>
       THEN local_response(request_payload, context_used, <<>>)
       ELSE IF env.provider.kind \in {"HTTPError", "URLError", "Exception",
                                      "JSONDecodeError"}
       THEN local_response(request_payload, context_used, messages)
       ELSE LET extracted == extract_content(env.provider)
            IN IF extracted.raised /= "no"
               THEN [raised |-> extracted.raised,
                     answer |-> [topic |-> "none", numbers |-> <<>>, text |-> <<>>],
                     provider |-> "none", model |-> <<>>, fallback_used |-> FALSE,
                     context_used |-> context_used, messages |-> messages]
               ELSE IF extracted.content = None
               THEN local_response(request_payload, context_used, messages)
               ELSE [raised |-> "no",
                     answer |-> [topic |-> "provider", numbers |-> <<>>,
                                 text |-> extracted.content],
                     provider |-> "xai", model |-> model, fallback_used |-> FALSE,
                     context_used |-> context_used, messages |-> messages]

\* the messages of a history, at most MaxHistory
MaxHistory == 9

HistoryOf(n) ==
    [i \in 1..n |-> [role |-> IF i % 2 = 1 THEN "user" ELSE "assistant",
                     content |-> <<"m", Digits[(i % 10) + 1]>>]]

P_Bridge == <<"C","l","o","s","e"," ">> \o StrUpper(W_bridge)
P_RuJam == StrUpper(W_ru_jam) \o <<"cyr_i">>
P_Air == <<"a","i","r","?">>
P_Other == <<"h","i">>

AiProviderOutcomes ==
    {[kind |-> k, content |-> <<>>, parts |-> <<>>] :
         k \in {"HTTPError", "URLError", "Exception", "JSONDecodeError", "not_dict",
                "no_choices", "choices_not_list", "choices_empty", "choice_not_dict",
                "message_missing", "message_not_dict", "content_missing",
                "content_other"}}
        \cup {[kind |-> "content_str", content |-> t, parts |-> <<>>] :
                 t \in {<<>>, <<" ", "\n">>, <<" ", "o", "k", " ">>}}
        \cup {[kind |-> "content_list", content |-> <<>>, parts |-> ps] :
                 ps \in {<<>>,
                         <<[is_text |-> FALSE, text |-> <<"x">>]>>,
                         <<[is_text |-> TRUE, text |-> <<" ">>]>>,
                         <<[is_text |-> TRUE, text |-> <<"a">>],
                           [is_text |-> FALSE, text |-> <<"x">>],
                           [is_text |-> TRUE, text |-> <<"b", " ">>]>>}}

AiVehicle(id, status) ==
    [id |-> id, capacity |-> 10, current_location |-> LocA, status |-> status,
     route |-> <<>>]
AiPoint(id, name) == [id |-> id, name |-> name, demand |-> 30]

AiStores ==
    {NoStorage,
     [NoStorage EXCEPT !.vehicles = <<AiVehicle("v1", MOVING), AiVehicle("v2", IDLE)>>,
                       !.delivery_points = <<AiPoint("p1", <<"d","e","p","o","t">>),
                                             AiPoint("p2", StrUpper(W_ru_bridge))>>],
     [NoStorage EXCEPT !.vehicles = <<AiVehicle("v1", S_MovingRaw),
                                      AiVehicle("v2", MOVING),
                                      AiVehicle("v3", COMPLETED)>>,
                       !.delivery_points = <<AiPoint("p1", <<"d","e","p","o","t">>)>>]}

AiRequests ==
    {[prompt |-> p, history |-> HistoryOf(n), context |-> [bridge_id |-> b]] :
         p \in {P_Bridge, P_RuJam, P_Air, P_Other}, n \in 0..MaxHistory,
         b \in {"", "p1"}}

AiEnvs ==
    {[api_key |-> k, model |-> m, provider |-> o] :
         k \in {<<"x","a","i","-","k","e","y">>}, m \in {<<" ">>, <<"g","r","o","k","-","3","\n">>},
         o \in AiProviderOutcomes}
      \cup
    {[api_key |-> k, model |-> <<" ">>, provider |-> o] :
         k \in {<<>>, <<" ">>},
         o \in {x \in AiProviderOutcomes : x.kind \in {"URLError", "content_str"}}}

CallXai(request_payload, env) ==
    /\ ai_call.pc = "none"
    /\ ai_call' = [pc |-> "done", request |-> request_payload, env |-> env,
                   response |-> call_xai(storage, request_payload, env)]
    /\ UNCHANGED <<request, heap, run, simulations_storage, uuid_count, city_call,
                   impact_call, store_call, storage, predictor, index_call, object_call,
                   routing_call, optimize_call>>

InitAi ==
    /\ request = NoRequest
    /\ heap = EmptyDict
    /\ run = [r \in Runs |-> NoRun]
    /\ simulations_storage = EmptyDict
    /\ uuid_count = 0
    /\ city_call = NoCityCall
    /\ impact_call = NoImpactCall
    /\ store_call = NoStoreCall
    /\ predictor = NoPredictor
    /\ index_call = NoIndexCall
    /\ object_call = NoObjectCall
    /\ routing_call = NoRoutingCall
    /\ optimize_call = NoOptimizeCall
    /\ ai_call = NoAiCall
    /\ storage \in AiStores

NextAi == \E request_payload \in AiRequests, env \in AiEnvs : CallXai(request_payload, env)

SpecAi == InitAi /\ [][NextAi]_vars

\* ========================================================================
\* Properties
\* ========================================================================
\* what a caller reads in a response: the vehicles of each step by value,
\* everything but the generated identifier
ResponseView(h, response) ==
    [steps |-> [k \in 1..Len(response.steps) |->
                   [timestamp |-> response.steps[k].timestamp,
                    vehicles |-> Deref(h, response.steps[k].vehicles),
                    metrics |-> response.steps[k].metrics]],
     total_distance |-> response.total_distance,
     total_time |-> response.total_time,
     efficiency |-> response.efficiency]

RECURSIVE AloneLoop(_, _, _)
AloneLoop(h, rr, req) ==
    IF loop_done(rr.hour, req.duration_hours)
    THEN [heap |-> h, run |-> rr]
    ELSE LET s == tick_run(h, rr, req, "alone")
         IN AloneLoop(s.heap, s.run, req)

\* the response of a call that runs on the request as received, with no
\* other call around
AloneResult(req) ==
    LET s == start_run(InitialHeap(req), req, "alone", 0)
        f == AloneLoop(s.heap, s.run, req)
    IN ResponseView(f.heap, build_response(f.heap, f.run, req))

\* the vehicles of step k of run r, by value
StepVehicles(r, k) == Deref(heap, run[r].steps[k].vehicles)

\* C1: a call that returns has duration_hours > 0, its response has exactly
\* duration_hours steps and total_time = duration_hours; while the loop runs
\* there is one step per hour done.
C1_StepsLength ==
    \A r \in Runs :
        /\ run[r].pc = "loop" =>
              /\ Len(run[r].steps) = run[r].hour
              /\ run[r].hour <= request.duration_hours
        /\ run[r].pc = "done" =>
              /\ request.duration_hours > 0
              /\ Len(run[r].response.steps) = request.duration_hours
              /\ run[r].response.total_time = request.duration_hours

C1_Witness ==
    /\ run["r1"].pc = "done"
    /\ request.duration_hours = MaxDuration
    /\ Len(request.vehicles) = MaxVehicles
    /\ Len(run["r1"].response.steps) = MaxDuration

\* C2: with duration_hours <= 0 a call can only fail with status 400: it
\* returns no response and the results store stays as it was (empty); and a
\* call fails only then.
C2_InvalidDuration ==
    /\ request.duration_hours <= 0 =>
          /\ simulations_storage = EmptyDict
          /\ \A r \in Runs :
                /\ run[r].pc \in {"ready", "failed"}
                /\ run[r].response = NoResponse
                /\ run[r].steps = <<>>
    /\ \A r \in Runs :
          run[r].pc = "failed" =>
              /\ request.duration_hours <= 0
              /\ run[r].status_code = 400

C2_Witness ==
    /\ run["r1"].pc = "failed"
    /\ request.duration_hours = 0
    /\ request.vehicles /= <<>>

\* C3: the Vehicle objects of the request keep every field they arrived
\* with, in every state of every interleaving of the two calls, and the
\* response of each call is the response of a call running alone.
C3_NoMutation ==
    /\ \A i \in 1..Len(request.vehicles) : heap[RequestRef(i)] = request.vehicles[i]
    /\ \A r \in Runs :
          run[r].pc = "done" =>
              ResponseView(heap, run[r].response) = AloneResult(request)

\* r2 started first, r1 overtook it and has returned while r2 is in its loop;
\* a vehicle has moved away from where the request has it
C3_Witness ==
    /\ run["r1"].pc = "done"
    /\ run["r2"].pc = "loop"
    /\ run["r2"].hour >= 1
    /\ run["r2"].simulation_id < run["r1"].simulation_id
    /\ \E i \in 1..Len(request.vehicles) :
          StepVehicles("r1", Len(run["r1"].steps))[i].current_location
              /= request.vehicles[i].current_location

\* the location of vehicle i before tick k (k = 1 is hour 0) of run r
OwnLocationBefore(r, k, i) ==
    IF k = 1 THEN request.vehicles[i].current_location
    ELSE StepVehicles(r, k - 1)[i].current_location

\* the sum, over the ticks done and the vehicles with a route, of the
\* distance from the vehicle's own location before the tick to the waypoint
\* it is at after the tick
OwnIncrements(r) ==
    SumSeq([k \in 1..Len(run[r].steps) |->
        SumSeq([i \in 1..Len(request.vehicles) |->
            IF request.vehicles[i].route = <<>> THEN 0
            ELSE calculate_distance(OwnLocationBefore(r, k, i),
                                    StepVehicles(r, k)[i].current_location)])])

\* C4: the distance accumulated by a call is the sum of every routed
\* vehicle's own increments, and the response reports it rounded.
C4_OwnIncrements ==
    \A r \in Runs :
        /\ run[r].pc \in {"loop", "done"} => run[r].total_distance = OwnIncrements(r)
        /\ run[r].pc = "done" =>
              run[r].response.total_distance = RoundKm2(OwnIncrements(r))

\* C5: in every step a vehicle that has no route is where the request has
\* it and its status is one of the allowed statuses other than "moving":
\* the status it came with, trimmed and lower-cased, if that is allowed and
\* not "moving", and "idle" otherwise.
C5_EmptyRoute ==
    \A r \in Runs : \A k \in 1..Len(run[r].steps) : \A i \in 1..Len(request.vehicles) :
        request.vehicles[i].route = <<>> =>
            LET v == StepVehicles(r, k)[i]
                given == StrLower(StrStrip(request.vehicles[i].status))
            IN /\ v.current_location = request.vehicles[i].current_location
               /\ v.route = <<>>
               /\ v.status /= MOVING
               /\ v.status \in {IDLE, LOADING, UNLOADING, COMPLETED}
               /\ v.status = IF given \in {LOADING, UNLOADING, COMPLETED} THEN given ELSE IDLE
               /\ request.vehicles[i].status = S_MovingRaw => v.status = IDLE
               /\ request.vehicles[i].status = S_Broken => v.status = IDLE

C5_Witness ==
    /\ run["r1"].pc = "done"
    /\ request.duration_hours = MaxDuration
    /\ \E i, j \in 1..Len(request.vehicles) :
          /\ request.vehicles[i].route = <<>>
          /\ request.vehicles[i].status = S_MovingRaw
          /\ StepVehicles("r1", MaxDuration)[i].status = IDLE
          /\ request.vehicles[j].route /= <<>>

\* the status of vehicle i at point k of run r: k = 0 is the request (the
\* status as normalized), k >= 1 is step k
StatusAt(r, k, i) ==
    IF k = 0 THEN normalize_vehicle_status(request.vehicles[i].status)
    ELSE StepVehicles(r, k)[i].status

\* C6 as stated: from the request on, "completed" is never left, and the
\* only changes are idle to moving, moving to completed, and moving to idle
\* for a vehicle without a route.
C6_Original ==
    \A r \in Runs : \A i \in 1..Len(request.vehicles) :
        LET n == Len(run[r].steps)
        IN /\ \A j, k \in 0..n :
                 (j < k /\ StatusAt(r, j, i) = COMPLETED) => StatusAt(r, k, i) = COMPLETED
           /\ \A j \in 0..(n - 1) :
                 StatusAt(r, j, i) /= StatusAt(r, j + 1, i) =>
                     \/ <<StatusAt(r, j, i), StatusAt(r, j + 1, i)>>
                            \in {<<IDLE, MOVING>>, <<MOVING, COMPLETED>>}
                     \/ /\ <<StatusAt(r, j, i), StatusAt(r, j + 1, i)>> = <<MOVING, IDLE>>
                        /\ request.vehicles[i].route = <<>>

\* C6 (amended): from step to step "completed" is never left and the only
\* change is moving to completed; the first step does not continue the
\* request's status: a vehicle with a route is "moving" or "completed"
\* there whatever it came with, a vehicle without a route has its
\* normalized status with "moving" turned into "idle".
C6_Amended ==
    \A r \in Runs : \A i \in 1..Len(request.vehicles) :
        LET n == Len(run[r].steps)
        IN /\ \A j, k \in 1..n :
                 (j < k /\ StatusAt(r, j, i) = COMPLETED) => StatusAt(r, k, i) = COMPLETED
           /\ \A j \in 1..(n - 1) :
                 StatusAt(r, j, i) /= StatusAt(r, j + 1, i) =>
                     /\ <<StatusAt(r, j, i), StatusAt(r, j + 1, i)>> = <<MOVING, COMPLETED>>
                     /\ request.vehicles[i].route /= <<>>
           /\ n >= 1 =>
                 IF request.vehicles[i].route /= <<>>
                 THEN StatusAt(r, 1, i) \in {MOVING, COMPLETED}
                 ELSE StatusAt(r, 1, i) =
                          IF StatusAt(r, 0, i) = MOVING THEN IDLE ELSE StatusAt(r, 0, i)

\* a vehicle that came "completed" with a route of three waypoints was
\* "moving" in the first step and is "completed" in the last
C6_Witness ==
    /\ run["r1"].pc = "done"
    /\ request.duration_hours = 3
    /\ \E i \in 1..Len(request.vehicles) :
          /\ request.vehicles[i].status = COMPLETED
          /\ Len(request.vehicles[i].route) = 3
          /\ StatusAt("r1", 1, i) = MOVING
          /\ StatusAt("r1", 2, i) = MOVING
          /\ StatusAt("r1", 3, i) = COMPLETED

\* the capacity and the demand of the request, clamped below at 0
RequestCapacity ==
    SumSeq([i \in 1..Len(request.vehicles) |->
               IF request.vehicles[i].capacity > 0 THEN request.vehicles[i].capacity ELSE 0])
RequestDemand ==
    SumSeq([i \in 1..Len(request.delivery_points) |->
               IF request.delivery_points[i].demand > 0
               THEN request.delivery_points[i].demand ELSE 0])

\* C7 as stated: the efficiency of the response (held in hundredths of a
\* percent) is exactly min(capacity / demand, 1) x 100, or 100, or 0.
C7_Original ==
    \A r \in Runs :
        run[r].pc = "done" =>
            LET e == run[r].response.efficiency
            IN IF RequestDemand > 0
               THEN IF RequestCapacity < RequestDemand
                    THEN e * RequestDemand = 10000 * RequestCapacity
                    ELSE e = 10000
               ELSE IF RequestCapacity > 0 THEN e = 10000 ELSE e = 0

\* C7 (amended): the efficiency of the response is that value rounded to two
\* decimals: the hundredth nearest to min(capacity / demand, 1) x 100; it
\* lies within [0, 100].
C7_Amended ==
    \A r \in Runs :
        run[r].pc = "done" =>
            LET e == run[r].response.efficiency
            IN /\ e \in 0..10000
               /\ IF RequestDemand > 0
                  THEN IF RequestCapacity < RequestDemand
                       THEN 2 * Abs(e * RequestDemand - 10000 * RequestCapacity)
                                <= RequestDemand
                       ELSE e = 10000
                  ELSE IF RequestCapacity > 0 THEN e = 10000 ELSE e = 0

\* capacity 10 after the clamp of a negative capacity, demand 30: 33.33
C7_Witness ==
    /\ run["r1"].pc = "done"
    /\ \E i \in 1..Len(request.vehicles) : request.vehicles[i].capacity < 0
    /\ RequestCapacity = 10
    /\ RequestDemand = 30
    /\ run["r1"].response.efficiency = 3333

\* C8: the three indices returned by analyze_city_state lie within [0, 100]
\* (0..10000 hundredths) for every fleet and demand, and traffic_load is 0
\* for an empty fleet.
C8_Ranges ==
    city_call.pc = "done" =>
        /\ city_call.result.traffic_load \in 0..10000
        /\ city_call.result.ecology \in 0..10000
        /\ city_call.result.social_score \in 0..10000
        /\ city_call.vehicles = <<>> => city_call.result.traffic_load = 0

\* a fleet of negative capacities only, against a positive demand
C8_Witness ==
    /\ city_call.pc = "done"
    /\ Len(city_call.vehicles) >= 2
    /\ \A i \in 1..Len(city_call.vehicles) : city_call.vehicles[i].capacity < 0
    /\ \E i \in 1..Len(city_call.delivery_points) : city_call.delivery_points[i].demand > 0
    /\ city_call.result.social_score = 3000

\* 4 vehicles, 2 moving and 2 idle, total capacity 40, total demand 20
C9_Scenario ==
    /\ Len(city_call.vehicles) = 4
    /\ Cardinality({i \in 1..4 : city_call.vehicles[i].status = MOVING}) = 2
    /\ Cardinality({i \in 1..4 : city_call.vehicles[i].status = IDLE}) = 2
    /\ SumSeq([i \in 1..4 |-> city_call.vehicles[i].capacity]) = 40
    /\ SumSeq([i \in 1..Len(city_call.delivery_points) |->
                  city_call.delivery_points[i].demand]) = 20

\* C9 as stated: traffic_load = 50.0 and social_score = 77.5
C9_Original ==
    (city_call.pc = "done" /\ C9_Scenario) =>
        /\ city_call.result.traffic_load = 5000
        /\ city_call.result.social_score = 7750

\* C9 (amended): traffic_load = 50.0 and social_score = 85.0, the idle share
\* being 2/4 and its contribution 15
C9_Amended ==
    (city_call.pc = "done" /\ C9_Scenario) =>
        /\ city_call.result.traffic_load = 5000
        /\ city_call.result.social_score = 8500

C9_Witness ==
    /\ city_call.pc = "done"
    /\ C9_Scenario
    /\ city_call.result.social_score = 8500

\* the aliases and the category each stands for
AliasPairs ==
    {<<W_park, W_park>>, <<W_ru_park, W_park>>,
     <<W_school, W_school>>, <<W_ru_school, W_school>>,
     <<W_factory, W_factory>>, <<W_ru_factory, W_factory>>,
     <<W_residential, W_residential>>, <<W_ru_residential, W_residential>>,
     <<W_ru_residential_area, W_residential>>,
     <<W_bridge, W_bridge>>, <<W_ru_bridge, W_bridge>>}
CanonicalCategories == {W_park, W_school, W_factory, W_residential, W_bridge}

\* C10: an input that is an alias once trimmed and lower-cased gets status
\* 200, the canonical category of the alias, which has an entry in the
\* impact table, and the deltas the canonical name itself gets; any other
\* input gets status 400 and no category.
C10_AliasLookup ==
    impact_call.pc = "done" =>
        LET key == StrLower(StrStrip(impact_call.object_type))
            res == impact_call.result
        IN IF \E p \in AliasPairs : p[1] = key
           THEN /\ res.status_code = 200
                /\ <<key, res.object_type>> \in AliasPairs
                /\ res.object_type \in CanonicalCategories
                /\ res.object_type \in DOMAIN OBJECT_IMPACT
                /\ res.impact = get_object_impact(res.object_type).impact
                /\ get_object_impact(res.object_type).status_code = 200
                /\ key \in {W_park, W_ru_park} =>
                       res.impact = [ecology |-> 12, traffic_load |-> -4, social_score |-> 10]
           ELSE /\ res.status_code = 400
                /\ res.object_type = None

\* " PARK" in Cyrillic capitals between whitespace resolves to park
C10_Witness ==
    /\ impact_call.pc = "done"
    /\ impact_call.object_type = <<"\t">> \o StrUpper(W_ru_park) \o <<" ", " ">>
    /\ impact_call.result.status_code = 200
    /\ impact_call.result.object_type = W_park


\* C11: two calls of run_simulation on the same request that have both
\* returned have responses equal by value in steps (timestamps, vehicle
\* snapshots, metrics), total_distance, total_time and efficiency, whatever
\* the interleaving of the two calls; their simulation_id differ.
C11_Deterministic ==
    (run["r1"].pc = "done" /\ run["r2"].pc = "done") =>
        /\ ResponseView(heap, run["r1"].response) = ResponseView(heap, run["r2"].response)
        /\ run["r1"].response.simulation_id /= run["r2"].response.simulation_id

\* both calls have returned, one after the other, from a run in which a
\* vehicle moved
C11_Witness ==
    /\ run["r1"].pc = "done"
    /\ run["r2"].pc = "done"
    /\ run["r1"].simulation_id < run["r2"].simulation_id
    /\ Len(run["r1"].response.steps) >= 2
    /\ run["r2"].response.total_distance > 0


\* C12: over any sequence of run_simulation, read and delete calls, a call of
\* run_simulation that returns adds a key the store does not hold and that no
\* earlier call wrote; no step of any call changes the value kept under a key
\* that stays in the store; the identifiers of two calls differ.
C12_WriteOnce ==
    [][/\ \A k \in DOMAIN simulations_storage \cap DOMAIN simulations_storage' :
             response_body(heap', simulations_storage'[k])
                 = response_body(heap, simulations_storage[k])
       /\ \A r \in Runs :
             (run[r].pc = "loop" /\ run'[r].pc = "done") =>
                /\ run[r].simulation_id \notin DOMAIN simulations_storage
                /\ DOMAIN simulations_storage'
                      = DOMAIN simulations_storage \cup {run[r].simulation_id}
                /\ \A q \in Runs \ {r} :
                      run[q].pc \in {"loop", "done"} =>
                          run[q].simulation_id /= run[r].simulation_id
       /\ \A k \in DOMAIN simulations_storage' \ DOMAIN simulations_storage :
             \E r \in Runs : /\ run[r].pc = "loop"
                             /\ run'[r].pc = "done"
                             /\ k = run[r].simulation_id]_vars

\* the first call returned and its entry was deleted, then the second call
\* ran and returned: the store holds the second entry only
C12_Witness ==
    /\ run["r1"].pc = "done"
    /\ run["r2"].pc = "done"
    /\ run["r1"].simulation_id = 1
    /\ DOMAIN simulations_storage = {2}
    /\ Len(simulations_storage[2].steps) >= 2


\* a response, or the body sent for it, that lacks nothing: one step per
\* hour of the request with every vehicle in it, total_time, the
\* total_distance of its last step and the efficiency of the request
CompleteResponse(response) ==
    /\ response.total_time = request.duration_hours
    /\ response.total_time >= 1
    /\ Len(response.steps) = response.total_time
    /\ \A k \in 1..Len(response.steps) :
          /\ response.steps[k].metrics.hour = k - 1
          /\ Len(response.steps[k].vehicles) = Len(request.vehicles)
    /\ response.total_distance
          = response.steps[Len(response.steps)].metrics.total_distance
    /\ response.efficiency = efficiency_of(request.vehicles, request.delivery_points)

\* C13: in every reachable state, with reads between the steps of the runs,
\* every entry of simulations_storage is a complete response kept under its
\* own simulation_id, and every body a read returned is one.
C13_AllAtOnce ==
    /\ \A k \in DOMAIN simulations_storage :
          /\ simulations_storage[k].simulation_id = k
          /\ CompleteResponse(simulations_storage[k])
    /\ \A b \in store_call.body : CompleteResponse(b)

\* a read returned one entry while the other call was inside its loop with a
\* step already made
C13_Witness ==
    /\ store_call.op \in {"get", "get_all"}
    /\ store_call.body /= {}
    /\ run["r1"].pc = "done"
    /\ run["r2"].pc = "loop"
    /\ run["r2"].hour >= 1
    /\ run["r2"].simulation_id \notin DOMAIN simulations_storage

\* C15: get_simulation_results and delete_simulation on an identifier the
\* store does not hold answer 404 and leave the store as it is; on one it
\* holds, get answers 200 with the entry and leaves the store as it is and
\* delete answers 200 and removes that entry only. A call of run_simulation
\* that returns leaves its response under its identifier; an entry leaves
\* the store only by a delete_simulation of its identifier, and while it is
\* there it is the response the call returned.
C15_Lookups ==
    [][/\ (store_call' /= store_call /\ store_call'.op \in {"get", "delete"}) =>
             LET id == store_call'.simulation_id
             IN IF id \notin DOMAIN simulations_storage
                THEN /\ store_call'.status_code = 404
                     /\ store_call'.body = {}
                     /\ simulations_storage' = simulations_storage
                ELSE /\ store_call'.status_code = 200
                     /\ store_call'.op = "get" =>
                           /\ simulations_storage' = simulations_storage
                           /\ store_call'.body
                                 = {response_body(heap, simulations_storage[id])}
                     /\ store_call'.op = "delete" =>
                           simulations_storage' = DictDel(simulations_storage, id)
       /\ \A k \in DOMAIN simulations_storage \ DOMAIN simulations_storage' :
             /\ store_call'.op = "delete"
             /\ store_call'.simulation_id = k
             /\ store_call'.status_code = 200
       /\ \A r \in Runs :
             /\ (run[r].pc = "loop" /\ run'[r].pc = "done") =>
                    run'[r].simulation_id \in DOMAIN simulations_storage'
             /\ (run[r].pc = "done" /\ run'[r].pc = "done") =>
                    response_body(heap', run'[r].response)
                        = response_body(heap, run[r].response)
             /\ (run'[r].pc = "done"
                   /\ run'[r].simulation_id \in DOMAIN simulations_storage') =>
                    response_body(heap', simulations_storage'[run'[r].simulation_id])
                        = response_body(heap', run'[r].response)]_vars

\* a call returned, its entry was deleted, and a later read of its
\* identifier was answered 404
C15_Witness ==
    /\ store_call.op = "get"
    /\ store_call.status_code = 404
    /\ \E r \in Runs :
          /\ run[r].pc = "done"
          /\ run[r].simulation_id = store_call.simulation_id
          /\ Len(run[r].response.steps) >= 2


\* C14: after any sequence of create, update and delete calls, no two
\* entries of the vehicles collection share an id, and no two entries of the
\* delivery_points collection do.
C14_UniqueIds ==
    /\ \A i, j \in 1..Len(storage.vehicles) :
          i /= j => storage.vehicles[i].id /= storage.vehicles[j].id
    /\ \A i, j \in 1..Len(storage.delivery_points) :
          i /= j => storage.delivery_points[i].id /= storage.delivery_points[j].id


\* C16: every call of predict_traffic returns a prediction (a level, a
\* confidence, a delay) and raises nothing; the prediction is the heuristic
\* one whenever the model or the scaler is not loaded and whenever the ML
\* branch raised, and the ML one otherwise; using_fallback is false only if
\* the model and the scaler are both loaded.
C16_AlwaysPredicts ==
    /\ ~predictor.using_fallback =>
          (predictor.model = "loaded" /\ predictor.scaler = "loaded")
    /\ predictor.pc /= "raised"
    /\ predictor.pc = "returned" =>
          /\ predictor.result.predicted_level \in {"low", "medium", "high", "severe"}
          /\ predictor.result.confidence \in {6, 8}
          /\ predictor.result.estimated_delay_minutes >= 0
          /\ IF \/ predictor.model /= "loaded"
                \/ predictor.scaler /= "loaded"
                \/ MlRaises(predictor.ml)
             THEN /\ predictor.result = _fallback_prediction(predictor.route_features)
                  /\ predictor.result.confidence = 6
             ELSE /\ predictor.result
                        = _interpret_prediction(predictor.ml.value, predictor.route_features)
                  /\ predictor.result.confidence = 8

\* model and scaler are loaded, the ML branch raised at model.predict, and
\* the call returned the heuristic prediction for a weekday rush hour
C16_Witness ==
    /\ predictor.pc = "returned"
    /\ ~predictor.using_fallback
    /\ predictor.ml.raises = "predict"
    /\ predictor.path = "except"
    /\ predictor.result.predicted_level = "severe"
    /\ predictor.result.confidence = 6


\* C17: over the hours 0 .. duration_hours - 1 of a run, the index selected
\* in a non-empty route never decreases and lies in 0 .. len(route) - 1; it
\* is 0 at every hour when len(route) = 1; when len(route) > 1 it is the last
\* index at every hour if duration_hours = 1, and if duration_hours > 1 it is
\* the last index at hour duration_hours - 1 and at no other hour.
C17_RouteIndex ==
    LET L == index_call.route_length
        d == index_call.duration_hours
        idx == index_call.indices
    IN index_call.pc = "loop" =>
          \A k \in 1..Len(idx) :
             /\ idx[k] \in 0..(L - 1)
             /\ k > 1 => idx[k - 1] <= idx[k]
             /\ L <= 1 => idx[k] = 0
             /\ (L > 1 /\ d = 1) => idx[k] = L - 1
             /\ (L > 1 /\ d > 1) => (idx[k] = L - 1 <=> k - 1 = d - 1)

\* a run of 4 hours over 5 waypoints is through: indices 0, 1, 2, 4
C17_Witness ==
    /\ index_call.pc = "loop"
    /\ index_call.route_length = 5
    /\ index_call.duration_hours = 4
    /\ index_call.indices = <<0, 1, 2, 4>>


\* whether vehicle i of the request has a route
Routed(i) == request.vehicles[i].route /= <<>>

\* the index selected in the route of vehicle i at tick k (hour k - 1)
SelectedIndex(k, i) ==
    _route_index_for_hour(Len(request.vehicles[i].route), k - 1, request.duration_hours)

\* the waypoint selected for vehicle i at tick k
SelectedWaypoint(k, i) == request.vehicles[i].route[SelectedIndex(k, i) + 1]

\* the vehicles of the request that have the id of vehicle i
SameId(i) ==
    {j \in 1..Len(request.vehicles) : request.vehicles[j].id = request.vehicles[i].id}

\* the greatest element of a non-empty set of numbers
Greatest(S) == CHOOSE x \in S : \A y \in S : y <= x

\* the location last recorded under the id of vehicle i when the tick k comes
\* to vehicle i: the waypoint of the routed vehicle of that id handled last
\* before it, in this tick or else in the tick before; at the first tick,
\* failing that, the location the request gives the last vehicle of that id
LastRecorded(k, i) ==
    LET routed == {j \in SameId(i) : Routed(j)}
        earlier == {j \in routed : j < i}
    IN IF earlier /= {} THEN SelectedWaypoint(k, Greatest(earlier))
       ELSE IF k > 1 THEN SelectedWaypoint(k - 1, Greatest(routed))
       ELSE request.vehicles[Greatest(SameId(i))].current_location

\* total_distance in the metrics of the step before step k; 0 before the first
DistanceBefore(r, k) ==
    IF k = 1 THEN 0 ELSE run[r].steps[k - 1].metrics.total_distance

StatusBefore(r, k, i) ==
    IF k = 1 THEN request.vehicles[i].status ELSE StepVehicles(r, k - 1)[i].status

\* the status the index selected at tick k gives vehicle i
StatusOfIndex(k, i) ==
    IF SelectedIndex(k, i) < Len(request.vehicles[i].route) - 1 THEN MOVING
    ELSE COMPLETED

\* C19: at a tick where the waypoint selected for a routed vehicle differs
\* from the location last recorded for it, the vehicle of the step is at that
\* waypoint, with status 'moving' if waypoints remain after the selected
\* index and 'completed' if none does.
C19_Advance ==
    \A r \in Runs : \A k \in 1..Len(run[r].steps) : \A i \in 1..Len(request.vehicles) :
        (Routed(i) /\ SelectedWaypoint(k, i) /= LastRecorded(k, i)) =>
            /\ StepVehicles(r, k)[i].current_location = SelectedWaypoint(k, i)
            /\ StepVehicles(r, k)[i].status = StatusOfIndex(k, i)

\* a vehicle advanced to a waypoint in the middle of its route and is
\* 'moving', then advanced to the last one and is 'completed'
C19_Witness ==
    \E i \in 1..Len(request.vehicles) :
        /\ Len(run["r1"].steps) = 3
        /\ Len(request.vehicles[i].route) = 3
        /\ SelectedWaypoint(2, i) /= LastRecorded(2, i)
        /\ StepVehicles("r1", 2)[i].current_location = LocB
        /\ StepVehicles("r1", 2)[i].status = MOVING
        /\ SelectedWaypoint(3, i) /= LastRecorded(3, i)
        /\ StepVehicles("r1", 3)[i].current_location = LocC
        /\ StepVehicles("r1", 3)[i].status = COMPLETED

\* C20 as claimed: at a tick where the waypoint selected for a routed vehicle
\* equals the location last recorded for it, the vehicle of the step has the
\* current_location and the status it had before the tick.
C20_Original ==
    \A r \in Runs : \A k \in 1..Len(run[r].steps) : \A i \in 1..Len(request.vehicles) :
        (Routed(i) /\ SelectedWaypoint(k, i) = LastRecorded(k, i)) =>
            /\ StepVehicles(r, k)[i].current_location = OwnLocationBefore(r, k, i)
            /\ StepVehicles(r, k)[i].status = StatusBefore(r, k, i)

\* C20 (amended): at a tick where the waypoint selected for a routed vehicle
\* equals the location last recorded for it, the vehicle of the step is at
\* that location, and its status is the one the selected index gives
\* ('moving' if waypoints remain, else 'completed') whatever its status was
\* before the tick; if the vehicle was itself at that location before the
\* tick, its current_location is unchanged.
C20_Amended ==
    \A r \in Runs : \A k \in 1..Len(run[r].steps) : \A i \in 1..Len(request.vehicles) :
        (Routed(i) /\ SelectedWaypoint(k, i) = LastRecorded(k, i)) =>
            /\ StepVehicles(r, k)[i].current_location = LastRecorded(k, i)
            /\ StepVehicles(r, k)[i].status = StatusOfIndex(k, i)
            /\ OwnLocationBefore(r, k, i) = LastRecorded(k, i) =>
                  StepVehicles(r, k)[i].current_location = OwnLocationBefore(r, k, i)

\* an 'idle' vehicle waits at the only waypoint of its route: the first tick
\* does not move it and makes it 'completed'
C20_Witness ==
    \E i \in 1..Len(request.vehicles) :
        /\ Len(run["r1"].steps) >= 1
        /\ request.vehicles[i].status = IDLE
        /\ request.vehicles[i].route = <<LocB>>
        /\ request.vehicles[i].current_location = LocB
        /\ SelectedWaypoint(1, i) = LastRecorded(1, i)
        /\ StepVehicles("r1", 1)[i].current_location = LocB
        /\ StepVehicles("r1", 1)[i].status = COMPLETED


\* one vehicle starting at A with route [A, B, C], duration_hours = 3
C21_Scenario ==
    /\ Len(request.vehicles) = 1
    /\ request.vehicles[1].current_location = LocA
    /\ request.vehicles[1].route = <<LocA, LocB, LocC>>
    /\ request.duration_hours = 3

\* C21: in the step of hour duration_hours - 1 every vehicle with a route is
\* at the last waypoint of its route with status 'completed'; in the scenario
\* the vehicle of step 0 is at A, that of step 2 is at C and 'completed', the
\* distance the run accumulated is dist(A, B) + dist(B, C), and the response
\* and the last step report that distance rounded to two decimals.
C21_LastStep ==
    \A r \in Runs :
        /\ (request.duration_hours >= 1 /\ Len(run[r].steps) = request.duration_hours) =>
              \A i \in 1..Len(request.vehicles) :
                  Routed(i) =>
                     LET v == StepVehicles(r, request.duration_hours)[i]
                         route == request.vehicles[i].route
                     IN /\ v.current_location = route[Len(route)]
                        /\ v.status = COMPLETED
        /\ (C21_Scenario /\ Len(run[r].steps) >= 1) =>
              StepVehicles(r, 1)[1].current_location = LocA
        /\ (C21_Scenario /\ run[r].pc = "done") =>
              /\ StepVehicles(r, 3)[1].current_location = LocC
              /\ StepVehicles(r, 3)[1].status = COMPLETED
              /\ run[r].total_distance
                    = calculate_distance(LocA, LocB) + calculate_distance(LocB, LocC)
              /\ run[r].response.total_distance = RoundKm2(run[r].total_distance)
              /\ run[r].response.steps[3].metrics.total_distance
                    = run[r].response.total_distance

\* the scenario has run to its end: 2.51 km
C21_Witness ==
    /\ C21_Scenario
    /\ run["r1"].pc = "done"
    /\ StepVehicles("r1", 2)[1].current_location = LocB
    /\ run["r1"].response.total_distance = 251


\* the indices of all the hours of the run are there
IndexRunDone == index_call.hour = index_call.duration_hours

\* the indices selected over the run
IndicesSelected == {index_call.indices[k] : k \in 1..Len(index_call.indices)}

SnapshotCount(r, k, status) ==
    Cardinality({i \in 1..Len(StepVehicles(r, k)) : StepVehicles(r, k)[i].status = status})

\* what C23 says of every step but traffic_load: the three counts are those
\* of the step's own vehicles, ecology and social_score are those of
\* analyze_city_state on the step's vehicles and the request's delivery points
MetricsOfSnapshot(r, k) ==
    LET m == run[r].steps[k].metrics
        city == analyze_city_state(StepVehicles(r, k), request.delivery_points)
    IN /\ m.vehicles_moving = SnapshotCount(r, k, MOVING)
       /\ m.vehicles_completed = SnapshotCount(r, k, COMPLETED)
       /\ m.vehicles_idle = SnapshotCount(r, k, IDLE)
       /\ m.ecology = city.ecology
       /\ m.social_score = city.social_score
       /\ Len(request.vehicles) = 0 => m.traffic_load = 0

\* C23 as claimed: besides, traffic_load (held in hundredths) is exactly
\* 100 x vehicles_moving / number of vehicles.
C23_Original ==
    \A r \in Runs : \A k \in 1..Len(run[r].steps) :
        /\ MetricsOfSnapshot(r, k)
        /\ run[r].steps[k].metrics.traffic_load * Len(request.vehicles)
              = 10000 * run[r].steps[k].metrics.vehicles_moving

\* C23 (amended): besides, traffic_load is 100 x vehicles_moving / number of
\* vehicles rounded to two decimals: the hundredth nearest to it.
C23_Amended ==
    \A r \in Runs : \A k \in 1..Len(run[r].steps) :
        /\ MetricsOfSnapshot(r, k)
        /\ 2 * Abs(run[r].steps[k].metrics.traffic_load * Len(request.vehicles)
                     - 10000 * run[r].steps[k].metrics.vehicles_moving)
              <= Len(request.vehicles)

\* three vehicles, one of them moving, one idle, one completed: 33.33
C23_Witness ==
    /\ Len(request.vehicles) = 3
    /\ Len(run["r1"].steps) >= 1
    /\ run["r1"].steps[1].metrics.vehicles_moving = 1
    /\ run["r1"].steps[1].metrics.vehicles_idle = 1
    /\ run["r1"].steps[1].metrics.vehicles_completed = 1
    /\ run["r1"].steps[1].metrics.traffic_load = 3333


\* every step of run r, in the given heap, lists the vehicles of the request
\* in request order, each with the route the request gives it
ListsRequestVehicles(h, steps) ==
    \A k \in 1..Len(steps) :
        /\ Len(steps[k].vehicles) = Len(request.vehicles)
        /\ \A i \in 1..Len(request.vehicles) :
              /\ h[steps[k].vehicles[i]].id = request.vehicles[i].id
              /\ h[steps[k].vehicles[i]].capacity = request.vehicles[i].capacity
              /\ h[steps[k].vehicles[i]].route = request.vehicles[i].route

\* C24: no step of the program changes a field of a vehicle held in a step
\* recorded before (the recorded steps stay what they were, by value, while
\* later ticks run and the response is built), and every recorded step lists
\* all vehicles of the request in request order with their routes.
C24_Snapshots ==
    [][\A r \in Runs :
          /\ Len(run'[r].steps) >= Len(run[r].steps)
          /\ \A k \in 1..Len(run[r].steps) :
                Deref(heap', run'[r].steps[k].vehicles)
                    = Deref(heap, run[r].steps[k].vehicles)
          /\ ListsRequestVehicles(heap', run'[r].steps)]_vars

\* three steps are recorded and the vehicle of the first step is still at A
\* and 'moving' while that of the third is at C and 'completed'
C24_Witness ==
    /\ run["r1"].pc = "done"
    /\ Len(run["r1"].steps) = 3
    /\ \E i \in 1..Len(request.vehicles) :
          /\ StepVehicles("r1", 1)[i].current_location = LocA
          /\ StepVehicles("r1", 1)[i].status = MOVING
          /\ StepVehicles("r1", 3)[i].current_location = LocC
          /\ StepVehicles("r1", 3)[i].status = COMPLETED
          /\ request.vehicles[i].current_location = LocB


\* C25: the k-th step recorded (k from 1) has metrics.hour = k - 1 and
\* timestamp = start_time + (k - 1) hours, so the timestamps strictly
\* increase along the steps; the same holds in the response.
C25_Ordered ==
    \A r \in Runs :
        /\ \A k \in 1..Len(run[r].steps) :
              /\ run[r].steps[k].metrics.hour = k - 1
              /\ run[r].steps[k].timestamp = request.start_time + (k - 1)
              /\ k > 1 => run[r].steps[k - 1].timestamp < run[r].steps[k].timestamp
        /\ run[r].pc = "done" =>
              /\ run[r].response.steps = run[r].steps
              /\ Len(run[r].response.steps) = request.duration_hours

\* a response of three steps at hours 0, 1, 2
C25_Witness ==
    /\ run["r1"].pc = "done"
    /\ Len(run["r1"].response.steps) = 3
    /\ run["r1"].response.steps[1].timestamp = request.start_time
    /\ run["r1"].response.steps[3].timestamp = request.start_time + 2
    /\ run["r1"].response.steps[3].metrics.hour = 2


\* the deltas the message forms are checked on: the table's range and zero
EcologyDeltas == -20..20

\* C26: a successful impact lookup returns the impact triple of the resolved
\* category's table entry, and its message follows the sign of that entry's
\* ecology delta: "will fall by X%" for a negative delta, "will rise by X%"
\* for a positive one, X being the absolute value of the delta; the message
\* function gives "no change" for a zero delta.
C26_Message ==
    /\ (impact_call.pc = "done" /\ impact_call.result.status_code = 200) =>
           LET res == impact_call.result
               entry == OBJECT_IMPACT[res.object_type]
           IN /\ res.impact = entry
              /\ entry.ecology < 0 =>
                     res.message = [direction |-> "fall", amount |-> -entry.ecology]
              /\ entry.ecology > 0 =>
                     res.message = [direction |-> "rise", amount |-> entry.ecology]
              /\ entry.ecology = 0 =>
                     res.message = [direction |-> "none", amount |-> 0]
    /\ \A d \in EcologyDeltas :
           /\ d < 0 => ecology_message(d) = [direction |-> "fall", amount |-> -d]
           /\ d > 0 => ecology_message(d) = [direction |-> "rise", amount |-> d]
           /\ d = 0 => ecology_message(d) = [direction |-> "none", amount |-> 0]

\* the Cyrillic alias of factory: ecology falls by 20
C26_Witness ==
    /\ impact_call.pc = "done"
    /\ impact_call.object_type = W_ru_factory
    /\ impact_call.result.object_type = W_factory
    /\ impact_call.result.message = [direction |-> "fall", amount |-> 20]
    /\ impact_call.result.impact = [ecology |-> -20, traffic_load |-> 15, social_score |-> 5]


\* no vehicle of the store has the id
VehicleAbsent(st, id) == \A i \in 1..Len(st.vehicles) : st.vehicles[i].id /= id

\* C29: a delete_vehicle(id) answers 200 and leaves no vehicle with the id,
\* so deleting again changes nothing; while no vehicle has an id, no call
\* other than a create_vehicle of that id brings it back, get_vehicle of it
\* answers 404, and update_vehicle of it answers 404 and leaves the store
\* as it was.
C29_DeleteStays ==
    [][/\ object_call'.op = "delete_vehicle" =>
              /\ object_call'.status_code = 200
              /\ VehicleAbsent(storage', object_call'.id)
              /\ delete_object(storage'.vehicles, object_call'.id).items = storage'.vehicles
              /\ delete_object(storage'.vehicles, object_call'.id).status_code = 200
       /\ \A id \in ObjectVehicleIds :
              VehicleAbsent(storage, id) =>
                  /\ ~(object_call'.op = "create_vehicle" /\ object_call'.id = id) =>
                         VehicleAbsent(storage', id)
                  /\ (object_call'.op = "get_vehicle" /\ object_call'.id = id) =>
                         object_call'.status_code = 404
                  /\ (object_call'.op = "update_vehicle" /\ object_call'.id = id) =>
                         /\ object_call'.status_code = 404
                         /\ storage' = storage
      ]_vars

\* a delete of "v1" that found two vehicles with that id and left none
C29_Witness ==
    /\ object_call.op = "delete_vehicle"
    /\ object_call.id = "v1"
    /\ object_call.matched = 2
    /\ object_call.status_code = 200
    /\ VehicleAbsent(storage, "v1")


\* C27: every finished call of fetch_route_alternatives returned a list of
\* at least one route; when the token is missing or is the placeholder, or
\* the provider call ended in an HTTP error, a network error, unparsable
\* JSON, another exception or an answer without routes, the list is the
\* single fallback route, whose geometry is [origin, destination] and whose
\* transport_mode is the normalized mode.
C27_AlwaysRoutes ==
    routing_call.pc = "done" =>
        LET c == routing_call
            res == c.result
            mode == _normalize_transport_mode(c.transport_mode)
            no_token == c.access_token \in {"", "your_mapbox_access_token_here"}
            no_routes == \/ c.provider.kind /= "dict"
                         \/ \A i \in 1..Len(c.provider.routes) :
                                ~c.provider.routes[i].is_object
        IN /\ res.raised = "no"
           /\ Len(res.routes) >= 1
           /\ (no_token \/ no_routes) =>
                  /\ Len(res.routes) = 1
                  /\ res.routes[1].geometry = <<c.origin, c.destination>>
                  /\ res.routes[1].transport_mode = mode
                  /\ mode \in {M_driving, M_walking, M_cycling}


\* the routes of a response with the least duration_with_traffic_minutes,
\* as indexes counted from 0
FastestIndexes(routes) ==
    {i \in 0..(Len(routes) - 1) :
        \A j \in 1..Len(routes) :
            routes[i + 1].duration_with_traffic_minutes
                <= routes[j].duration_with_traffic_minutes}

\* C28: in every response of optimize_route recommended_route_index is an
\* index of the returned routes (0 <= index < len(routes)); when the AI
\* recommendation is switched off, or the call of the recommendation
\* service failed, it is the least index among the routes whose
\* duration_with_traffic_minutes is minimal.
C28_ValidIndex ==
    (optimize_call.pc = "done" /\ optimize_call.response.status_code = 200) =>
        LET res == optimize_call.response
            idx == res.recommended_route_index
            ai_failed == _call_grok_ai(optimize_call.env.api_key,
                                       optimize_call.env.grok).raised
        IN /\ Len(res.routes) >= 1
           /\ 0 <= idx /\ idx < Len(res.routes)
           /\ (~optimize_call.payload.use_ai_recommendation \/ ai_failed) =>
                  /\ idx \in FastestIndexes(res.routes)
                  /\ \A i \in FastestIndexes(res.routes) : idx <= i
                  /\ res.ai_recommendation = None

\* two routes, the second the faster, the recommendation service
\* unreachable: index 1 is recommended
C28_Witness ==
    /\ optimize_call.pc = "done"
    /\ optimize_call.response.status_code = 200
    /\ optimize_call.payload.use_ai_recommendation
    /\ optimize_call.env.grok.kind = "URLError"
    /\ Len(optimize_call.response.routes) = 2
    /\ optimize_call.response.routes[2].duration_with_traffic_minutes
           < optimize_call.response.routes[1].duration_with_traffic_minutes
    /\ optimize_call.response.recommended_route_index = 1


\* the provider call ended in one of the outcomes that call for the local
\* fallback: no key, an exception, a body that is not JSON, or an answer
\* whose content is missing or empty
AiNoContent(env) ==
    \/ StrStrip(env.api_key) = <<>>
    \/ env.provider.kind \notin {"content_str", "content_list"}
    \/ /\ env.provider.kind = "content_str"
       /\ StrStrip(env.provider.content) = <<>>
    \/ /\ env.provider.kind = "content_list"
       /\ \A k \in 1..Len(env.provider.parts) :
              env.provider.parts[k].is_text => StrStrip(env.provider.parts[k].text) = <<>>

\* C30: every call of call_xai returns a response; it answers from the
\* local fallback with provider "local" and fallback_used = true when there
\* is no API key, when the provider call ended in an HTTP error, a network
\* error or another exception, when the body is not JSON and when the
\* content is empty or missing; fallback_used is false only when the
\* provider returned content that is not empty; at most the last 8 history
\* messages are forwarded to the provider.
C30_AlwaysAnswers ==
    ai_call.pc = "done" =>
        LET res == ai_call.response
            history == ai_call.request.history
        IN /\ res.raised = "no"
           /\ AiNoContent(ai_call.env) =>
                  /\ res.provider = "local"
                  /\ res.fallback_used
                  /\ res.answer = build_local_fallback(ai_call.request.prompt,
                                                       res.context_used)
           /\ ~res.fallback_used => ~AiNoContent(ai_call.env)
           /\ res.messages /= <<>> =>
                  /\ Len(res.messages) <= 8 + 3
                  /\ SubSeq(res.messages, 3, Len(res.messages) - 1) = LastEight(history)

====
